---- MODULE Spec2Model ----
(***************************************************************************)
(* Stream Quality Scheduling & Scoring Engine of dispatcharr-stream-manager *)
(* (backend/stream_checker_service.py, backend/dispatcharr-stream-sorter.py,*)
(* backend/api_utils.py, backend/web_api.py).                               *)
(*                                                                          *)
(* The module holds several specifications over one set of variables:       *)
(*   Spec        StreamCheckQueue, its API callers and the worker loop      *)
(*   SpecMissed  tracker, scheduler drain, queue and worker; records which  *)
(*               marked channels are still owed a check                     *)
(*   SpecAdmit   the same program; records the admissions of each drain     *)
(*   SpecTracker get_and_clear_channels_needing_check called twice          *)
(*   SpecSched   the scheduler loop's global schedule, the clock and a      *)
(*               manual trigger_global_action                               *)
(*   SpecCheck   the stream data of one _check_channel run                  *)
(*   SpecProbe   the callers of _analyze_stream_task and the per-provider   *)
(*               semaphores                                                 *)
(*   SpecQueue   StreamCheckQueue with any max_size; records the last call  *)
(*               and its result                                             *)
(*   SpecLife    the same program; records how each channel left completed  *)
(*   SpecRetry   tracker, scheduler loop with the global schedule, queue    *)
(*               and worker; records the failed checks                      *)
(*   SpecGlobal  the scheduler loop against a manual trigger_global_action  *)
(*   SpecMark    mark_channel_updated, mark_channels_updated and            *)
(*               mark_channel_checked called on the tracker                 *)
(*   SpecScore   _calculate_stream_score between configuration updates      *)
(*   SpecLoops   start() and stop() against the worker and scheduler loops  *)
(*   SpecWake    trigger_check_updated_channels and update_config against   *)
(*               the scheduler loop, the two threads scheduled fairly       *)
(*   SpecSweep   a manual global action while channels are checked          *)
(*   SpecForce   SpecSweep with M3U updates marking channels                *)
(*   SpecDaily   the daily schedule with a global check recorded            *)
(*   SpecMonthly the schedule with monthly frequency                        *)
(*   SpecModes   the scheduler loop under every pipeline mode               *)
(*   SpecConfig  update_config, its two event sets apart, against the       *)
(*               scheduler loop                                             *)
(*   SpecFrame   the operations of the tracker on channels marked for a     *)
(*               force check                                                *)
(*   SpecResolution  _calculate_stream_score with the whole weight on the   *)
(*               resolution                                                 *)
(***************************************************************************)
EXTENDS Integers, Sequences, FiniteSets, TLC

VARIABLES
    buffer,        \* StreamCheckQueue.queue: FIFO of <<priority, channel_id>>
    queued,        \* StreamCheckQueue.queued
    in_progress,   \* StreamCheckQueue.in_progress
    completed,     \* StreamCheckQueue.completed
    failed,        \* StreamCheckQueue.failed: channel_id -> error (NoError = no key)
    stats,         \* StreamCheckQueue.stats
    max_size,      \* config 'queue.max_size', the maxsize of StreamCheckQueue.queue
    updates,       \* ChannelUpdateTracker.updates['channels']: channel -> record
    order,         \* insertion order of the keys of updates['channels']
    last_global_check, \* ChannelUpdateTracker.updates['last_global_check'] (its date)
    running,       \* StreamCheckerService.running
    check_trigger, \* StreamCheckerService.check_trigger (threading.Event)
    config_changed,\* StreamCheckerService.config_changed (threading.Event)
    global_action_in_progress, \* StreamCheckerService.global_action_in_progress
    pipeline_mode, \* config 'pipeline_mode'
    schedule_enabled, \* config 'global_check_schedule.enabled'
    frequency,     \* config 'global_check_schedule.frequency'
    worker,        \* the worker thread: [pc, ch]
    sched,         \* the scheduler thread: [pc, list, i]
    manual,        \* a thread calling trigger_global_action: its position
    now,           \* datetime.now(): [day, tod]
    tcall,         \* two calls of get_and_clear_channels_needing_check
    chk,           \* the stream data of the running _check_channel
    threads,       \* the threads that call _analyze_stream_task
    provider_semaphores, \* sorter.provider_semaphores of each module instance
    scoring,       \* the scoring configuration and the scores computed with it
    extra,         \* the loops of a later start() that run beside earlier ones
    updater,       \* a thread calling update_config: its position
    lastcall,      \* history: the latest call of the API under observation
    hist,          \* which history the behaviour records ("none": no history)
    due,           \* history of each channel, "no" when there is none
    admitted,      \* history: drain admissions of a channel since its last mark
    drainOwes,     \* history: channels the running drain still has to admit
    global_calls   \* history: _queue_all_channels calls of the schedule today

vars == <<buffer, queued, in_progress, completed, failed, stats, max_size,
          updates, order, last_global_check, running, check_trigger,
          config_changed, global_action_in_progress, pipeline_mode,
          schedule_enabled, frequency, worker, sched, manual, now, tcall, chk, threads,
          provider_semaphores, scoring, extra, updater, lastcall, hist, due,
          admitted,
          drainOwes, global_calls>>

queueVars == <<buffer, queued, in_progress, completed, failed, stats>>
trackerVars == <<updates, order>>
flagVars == <<running, check_trigger, config_changed,
              global_action_in_progress, pipeline_mode>>
(* state of the global schedule *)
globalVars == <<last_global_check, schedule_enabled, manual, now, global_calls>>
(* state of the data-level specifications *)
dataVars == <<tcall, chk, threads, provider_semaphores>>
(* what no operation of the service but start() and the end of a loop
   changes *)
staticVars == <<hist, max_size, frequency, extra, updater>>
sideVars == <<staticVars, scoring, lastcall>>
(* everything the queue, the drain and the worker loop leave alone *)
restVars == <<sideVars, globalVars, dataVars>>
historyVars == <<restVars, due, admitted, drainOwes>>
(* the same for a call that lastcall records *)
callRest == <<staticVars, scoring, globalVars, dataVars>>
callFrame == <<callRest, due, admitted, drainOwes>>

----------------------------------------------------------------------------
(* Bounds of the model *)

NumChannels == 2
MaxSize == 1
MaxChannelsPerRun == 1
MaxDay == 2
NumStreams == 3
MaxScore == 1
NumWorkers == 2
NumProviders == 2
MaxProbes == 2
MaxCount == 1

Channels == 1..NumChannels

(* Priorities used by the callers of add_channel / add_channels *)
PriorityGlobal == 5
PriorityUpdate == 10
PriorityCheckNow == 100
Priorities == {PriorityGlobal, PriorityUpdate, PriorityCheckNow}

NoError == "none"
NoChannel == 0

(* lastcall when no call has been recorded *)
NoCall ==
    [op |-> "none", ids |-> <<>>, ok |-> FALSE, count |-> 0, free |-> FALSE,
     len |-> 0, same |-> TRUE, grown |-> 0]

(* extra when each loop runs at most once *)
NoExtra == [worker |-> FALSE, sched |-> FALSE]

(* scoring when no stream has been scored *)
NoScoring == [on |-> FALSE]

----------------------------------------------------------------------------
(* Helpers *)

Range(s) == {s[k] : k \in DOMAIN s}

(* the elements of a set of numbers as an ascending list *)
RECURSIVE Ascending(_)
Ascending(S) ==
    IF S = {} THEN <<>>
    ELSE LET m == CHOOSE x \in S : \A y \in S : x <= y
         IN  <<m>> \o Ascending(S \ {m})

(* the lists without repetition over S *)
RECURSIVE DistinctSeqs(_)
DistinctSeqs(S) ==
    {<<>>} \cup UNION {{<<x>> \o s : s \in DistinctSeqs(S \ {x})} : x \in S}

(* the orders in which the elements of S can have been inserted *)
Orders(S) == {s \in DistinctSeqs(S) : Range(s) = S}

----------------------------------------------------------------------------
(* ChannelUpdateTracker: the record kept per channel.  tracked = FALSE is a
   channel with no key in updates['channels']. *)

NewRecord ==
    [tracked |-> FALSE, needs_check |-> FALSE, force_check |-> FALSE,
     has_last_check |-> FALSE, checked_stream_ids |-> <<>>]

(* a mark that starts the record afresh, checked_stream_ids included *)
UpdatedRecordFresh(old) ==
    [tracked |-> TRUE, needs_check |-> TRUE, force_check |-> FALSE,
     has_last_check |-> FALSE, checked_stream_ids |-> <<>>]

(* mark_channel_updated / mark_channels_updated replace the record: only
   checked_stream_ids survives *)
UpdatedRecord(old) ==
    [tracked |-> TRUE, needs_check |-> TRUE, force_check |-> FALSE,
     has_last_check |-> FALSE,
     checked_stream_ids |-> IF old.tracked THEN old.checked_stream_ids ELSE <<>>]

TrackOrder(ord, c) == IF c \in Range(ord) THEN ord ELSE Append(ord, c)

RECURSIVE MarkAll(_, _)
MarkAll(upd, ids) ==
    IF ids = <<>> THEN upd
    ELSE MarkAll([upd EXCEPT ![Head(ids)] = UpdatedRecord(upd[Head(ids)])],
                 Tail(ids))

RECURSIVE OrderAll(_, _)
OrderAll(ord, ids) ==
    IF ids = <<>> THEN ord
    ELSE OrderAll(TrackOrder(ord, Head(ids)), Tail(ids))

(* a get_and_clear_channels_needing_check that returns every tracked channel,
   flagged or not *)
RECURSIVE NeedingCheckUnflagged(_, _, _, _)
NeedingCheckUnflagged(upd, ord, max_channels, acc) ==
    IF ord = <<>> THEN acc
    ELSE LET acc2 == Append(acc, Head(ord))
         IN  IF max_channels # 0 /\ Len(acc2) >= max_channels
             THEN acc2
             ELSE NeedingCheckUnflagged(upd, Tail(ord), max_channels, acc2)

(* a get_and_clear_channels_needing_check that never breaks at the cap *)
RECURSIVE NeedingCheckUncapped(_, _, _, _)
NeedingCheckUncapped(upd, ord, max_channels, acc) ==
    IF ord = <<>> THEN acc
    ELSE IF upd[Head(ord)].needs_check
         THEN NeedingCheckUncapped(upd, Tail(ord), max_channels,
                                   Append(acc, Head(ord)))
         ELSE NeedingCheckUncapped(upd, Tail(ord), max_channels, acc)

(* get_and_clear_channels_needing_check: the channels returned, walking the
   dict in insertion order; max_channels = 0 stands for None / 0 (no cap) *)
RECURSIVE NeedingCheck(_, _, _, _)
NeedingCheck(upd, ord, max_channels, acc) ==
    IF ord = <<>> THEN acc
    ELSE IF upd[Head(ord)].needs_check
         THEN LET acc2 == Append(acc, Head(ord))
              IN  IF max_channels # 0 /\ Len(acc2) >= max_channels
                  THEN acc2
                  ELSE NeedingCheck(upd, Tail(ord), max_channels, acc2)
         ELSE NeedingCheck(upd, Tail(ord), max_channels, acc)

(* a get_and_clear_channels_needing_check that leaves the flags set *)
ClearFlagsKept(upd, chans) == upd

(* ... and the flags it clears *)
ClearFlags(upd, chans) ==
    [c \in Channels |->
        IF c \in Range(chans) THEN [upd[c] EXCEPT !.needs_check = FALSE]
        ELSE upd[c]]

(* mark_channel_checked(channel_id, stream_count, checked_stream_ids);
   given = FALSE is the call without checked_stream_ids *)
CheckedRecord(old, ids, given) ==
    IF old.tracked
    THEN [old EXCEPT !.needs_check = FALSE, !.has_last_check = TRUE,
                     !.checked_stream_ids = IF given THEN ids ELSE @]
    ELSE [tracked |-> TRUE, needs_check |-> FALSE, force_check |-> FALSE,
          has_last_check |-> TRUE,
          checked_stream_ids |-> IF given THEN ids ELSE <<>>]

(* mark_channel_for_force_check *)
ForceRecord(old) ==
    IF old.tracked THEN [old EXCEPT !.force_check = TRUE]
    ELSE [NewRecord EXCEPT !.tracked = TRUE, !.force_check = TRUE]

(* should_force_check *)
ShouldForceCheck(rec) == rec.tracked /\ rec.force_check

(* clear_force_check *)
ClearForceCheck(rec) ==
    IF rec.tracked THEN [rec EXCEPT !.force_check = FALSE] ELSE rec

(* get_last_global_check returns None *)
NoDay == -1

----------------------------------------------------------------------------
(* StreamCheckQueue *)

(* the counters of stats count up to MaxCount; larger counts are not told
   apart *)
BumpBy(n, k) == IF n + k < MaxCount THEN n + k ELSE MaxCount

ZeroStats ==
    [total_queued |-> 0, total_completed |-> 0, total_failed |-> 0,
     current_channel |-> NoChannel, queue_size |-> 0]

(* queue.Queue(maxsize): put(block=False) raises Full when maxsize > 0 and
   qsize() >= maxsize; a maxsize of 0 or less is a queue without limit *)
Full(buf) == max_size > 0 /\ Len(buf) >= max_size

(* an add_channel that does not look at completed *)
CanAddCompleted(c) ==
    /\ c \notin queued
    /\ c \notin in_progress
    /\ ~Full(buffer)

(* add_channel admits the channel *)
CanAdd(c) ==
    /\ c \notin queued
    /\ c \notin in_progress
    /\ c \notin completed
    /\ ~Full(buffer)

(* add_channel(channel_id, priority) *)
AddChannel(c, p) ==
    IF CanAdd(c)
    THEN /\ buffer' = Append(buffer, <<p, c>>)
         /\ queued' = queued \cup {c}
         /\ stats' = [stats EXCEPT !.total_queued = BumpBy(@, 1),
                                   !.queue_size = Len(buffer) + 1]
         /\ UNCHANGED <<in_progress, completed, failed>>
    ELSE UNCHANGED queueVars

(* add_channels(channel_ids, priority): the buffer after adding ids in turn;
   busy holds the channels add_channel refuses *)
RECURSIVE AddAllBuffer(_, _, _, _)
AddAllBuffer(buf, busy, ids, p) ==
    IF ids = <<>> THEN buf
    ELSE LET c == Head(ids)
         IN  IF c \notin busy /\ ~Full(buf)
             THEN AddAllBuffer(Append(buf, <<p, c>>), busy \cup {c}, Tail(ids), p)
             ELSE AddAllBuffer(buf, busy, Tail(ids), p)

(* a remove_from_completed that empties completed *)
RemoveEveryCompleted(c) ==
    /\ completed' = {}
    /\ UNCHANGED <<buffer, queued, in_progress, failed, stats>>

(* remove_from_completed(channel_id) *)
RemoveFromCompleted(c) ==
    /\ completed' = completed \ {c}
    /\ UNCHANGED <<buffer, queued, in_progress, failed, stats>>

(* mark_completed(channel_id) *)
MarkCompleted(c) ==
    /\ in_progress' = in_progress \ {c}
    /\ completed' = completed \cup {c}
    /\ stats' = [stats EXCEPT !.total_completed = BumpBy(@, 1),
                              !.current_channel = IF @ = c THEN NoChannel ELSE @]
    /\ UNCHANGED <<buffer, queued, failed>>

(* a mark_failed that puts the channel back into the queue *)
MarkFailedRequeued(c, err) ==
    /\ in_progress' = in_progress \ {c}
    /\ failed' = [failed EXCEPT ![c] = err]
    /\ stats' = [stats EXCEPT !.total_failed = BumpBy(@, 1),
                              !.current_channel = IF @ = c THEN NoChannel ELSE @]
    /\ buffer' = Append(buffer, <<PriorityUpdate, c>>)
    /\ queued' = queued \cup {c}
    /\ UNCHANGED completed

(* mark_failed(channel_id, error) *)
MarkFailed(c, err) ==
    /\ in_progress' = in_progress \ {c}
    /\ failed' = [failed EXCEPT ![c] = err]
    /\ stats' = [stats EXCEPT !.total_failed = BumpBy(@, 1),
                              !.current_channel = IF @ = c THEN NoChannel ELSE @]
    /\ UNCHANGED <<buffer, queued, completed>>

(* clear() *)
Clear ==
    /\ buffer' = <<>>
    /\ queued' = {}
    /\ in_progress' = {}
    /\ completed' = {}
    /\ failed' = [c \in Channels |-> NoError]
    /\ stats' = ZeroStats

(* a gate that lets pipeline_2_5 check on update as pipeline_1_5 does *)
NoCheckOnUpdateModesNoHalf == {"disabled", "pipeline_2", "pipeline_3"}

(* the modes in which _queue_updated_channels returns at once *)
NoCheckOnUpdateModes == {"disabled", "pipeline_2", "pipeline_2_5", "pipeline_3"}
(* the modes in which _check_global_schedule goes on *)
ScheduledModes == {"pipeline_1_5", "pipeline_2_5", "pipeline_3"}

----------------------------------------------------------------------------
(* History: what a behaviour records besides the program's state *)

(* a mark of the channels S *)
DueAfterMark(S) ==
    IF hist = "missed"
    THEN [c \in Channels |-> IF c \in S THEN "marked" ELSE due[c]]
    ELSE IF hist = "retry"
         THEN [c \in Channels |-> IF c \in S THEN "no" ELSE due[c]]
         ELSE due

(* trigger_check_updated_channels raised the event for the marked channels *)
DueAfterTrigger ==
    IF hist = "missed" /\ pipeline_mode \notin NoCheckOnUpdateModes
    THEN [c \in Channels |-> IF due[c] = "marked" THEN "owed" ELSE due[c]]
    ELSE IF hist = "wake" /\ pipeline_mode \notin NoCheckOnUpdateModes
         THEN [c \in Channels |->
                  IF updates[c].needs_check THEN "owed" ELSE due[c]]
         ELSE due

(* get_and_clear_channels_needing_check returned chans to
   _queue_updated_channels *)
DueAfterDrain(chans) ==
    IF hist = "wake"
    THEN [c \in Channels |-> IF c \in Range(chans) THEN "drained" ELSE due[c]]
    ELSE due

(* a check of channel c starts *)
DueAfterCheckStart(c) ==
    IF hist \in {"missed", "retry"} THEN [due EXCEPT ![c] = "no"] ELSE due

(* the check of channel c failed *)
DueAfterFailure(c) ==
    IF hist = "retry" THEN [due EXCEPT ![c] = "failed"]
    ELSE IF hist = "sweep" /\ worker.pc = "check" /\ due[c] = "swept"
         THEN [due EXCEPT ![c] = "unfetched"]
         ELSE due

(* the scheduler loop ended a pass: a channel that failed before the pass
   before this one began is overdue *)
DueAfterPass ==
    IF hist = "retry"
    THEN [c \in Channels |->
             IF due[c] = "failed" THEN "waited"
             ELSE IF due[c] = "waited" THEN "overdue" ELSE due[c]]
    ELSE due

(* mark_completed(c): c entered completed *)
DueAfterCompleted(c) ==
    IF hist = "life" THEN [due EXCEPT ![c] = "completed"]
    ELSE IF hist = "sweep" /\ worker.pc = "check" /\ due[c] = "swept"
         THEN [due EXCEPT ![c] = "unfetched"]
         ELSE due

(* remove_from_completed(c) was called for a channel that entered completed *)
DueAfterRemove(c) ==
    IF hist = "life" /\ due[c] = "completed"
    THEN [due EXCEPT ![c] = "removed"]
    ELSE due

(* clear() was called *)
DueAfterClear ==
    IF hist = "life"
    THEN [c \in Channels |-> IF due[c] = "completed" THEN "cleared" ELSE due[c]]
    ELSE due

(* _queue_all_channels(force_check=True) marked every channel for a forced
   check *)
DueAfterSweep ==
    IF hist = "sweep" THEN [c \in Channels |-> "swept"] ELSE due

(* the check of channel c read should_force_check *)
DueAfterForceRead(c, force) ==
    IF hist = "sweep" /\ force THEN [due EXCEPT ![c] = "forced"] ELSE due

(* the specifications that observe the calls of an API *)
Observed == hist \in {"queue", "mark", "daily"}

(* lastcall after the call op(ids) that returned ok / count *)
CallRecord(op, ids, ok, count) ==
    IF Observed
    THEN [NoCall EXCEPT !.op = op, !.ids = ids, !.ok = ok, !.count = count]
    ELSE lastcall

(* ... of a call of the queue: free and len are what the caller could see
   before the call, same tells whether the call left the queue as it was *)
QueueCallRecord(op, ids, ok, count, c) ==
    IF Observed
    THEN [op |-> op, ids |-> ids, ok |-> ok, count |-> count,
          free |-> (c \notin queued \cup in_progress \cup completed),
          len |-> Len(buffer),
          grown |-> Cardinality(queued') - Cardinality(queued),
          same |-> (<<buffer', queued', in_progress', completed', failed',
                      stats'>> = queueVars)]
    ELSE lastcall

AdmittedAfterMark(S) ==
    IF hist = "admit"
    THEN [c \in Channels |-> IF c \in S THEN 0 ELSE admitted[c]]
    ELSE admitted

(* the drain admitted c: the admission counts for c's latest mark when the
   drain read the tracker after it, that is when c's flag is still clear *)
AdmittedAfterAdd(c, ok) ==
    IF hist = "admit" /\ ok /\ ~updates[c].needs_check
    THEN [admitted EXCEPT ![c] = IF @ < 2 THEN @ + 1 ELSE @]
    ELSE admitted

----------------------------------------------------------------------------
(* API callers (web_api.py, automated_stream_manager.py) *)

(* ChannelUpdateTracker.mark_channels_updated(channel_ids) *)
MarkChannelsUpdated(ids) ==
    /\ updates' = MarkAll(updates, ids)
    /\ order' = OrderAll(order, ids)
    /\ due' = DueAfterMark(Range(ids))
    /\ admitted' = AdmittedAfterMark(Range(ids))
    /\ lastcall' = CallRecord("mark_channels_updated", ids, TRUE, Len(ids))
    /\ UNCHANGED <<queueVars, flagVars, worker, sched, callRest, drainOwes>>

(* StreamCheckerService.trigger_check_updated_channels *)
TriggerCheckUpdatedChannels ==
    /\ running
    /\ check_trigger' = TRUE
    /\ due' = DueAfterTrigger
    /\ UNCHANGED <<queueVars, trackerVars, running, config_changed,
                   global_action_in_progress, pipeline_mode, worker, sched,
                   restVars, admitted, drainOwes>>

(* StreamCheckerService.update_config(updates) for keys the model does not
   hold: a running service is told with config_changed and woken with
   check_trigger *)
UpdateConfig ==
    /\ config_changed' = (config_changed \/ running)
    /\ check_trigger' = (check_trigger \/ running)
    /\ UNCHANGED <<queueVars, trackerVars, running,
                   global_action_in_progress, pipeline_mode, worker, sched,
                   historyVars>>

(* update_config, its two event sets taken one at a time: the configuration
   is updated and self.config_changed.set() ... *)
UpdateConfigSetChanged ==
    /\ updater = "idle"
    /\ running
    /\ config_changed' = TRUE
    /\ updater' = "signal"
    /\ UNCHANGED <<queueVars, trackerVars, running, check_trigger,
                   global_action_in_progress, pipeline_mode, worker, sched,
                   hist, max_size, frequency, extra, scoring, lastcall,
                   globalVars, dataVars, due, admitted, drainOwes>>

(* ... then self.check_trigger.set() *)
UpdateConfigSetTrigger ==
    /\ updater = "signal"
    /\ check_trigger' = TRUE
    /\ updater' = "idle"
    /\ UNCHANGED <<queueVars, trackerVars, running, config_changed,
                   global_action_in_progress, pipeline_mode, worker, sched,
                   hist, max_size, frequency, extra, scoring, lastcall,
                   globalVars, dataVars, due, admitted, drainOwes>>

(* StreamCheckerService.queue_channel(channel_id, priority) *)
QueueChannel(c, p) ==
    /\ AddChannel(c, p)
    /\ lastcall' = QueueCallRecord("add_channel", <<c>>, CanAdd(c), 0, c)
    /\ UNCHANGED <<trackerVars, flagVars, worker, sched, callFrame>>

(* StreamCheckQueue.add_channels(channel_ids, priority): add_channel for
   each id in turn; returns the number of calls that returned True *)
AddChannels(ids, p) ==
    /\ LET buf == AddAllBuffer(buffer, queued \cup in_progress \cup completed,
                               ids, p)
       IN  /\ buffer' = buf
           /\ queued' = queued \cup {buf[k][2] : k \in Len(buffer) + 1..Len(buf)}
           /\ stats' = IF buf = buffer THEN stats
                       ELSE [stats EXCEPT
                                !.total_queued = BumpBy(@, Len(buf) - Len(buffer)),
                                !.queue_size = Len(buf)]
    /\ UNCHANGED <<in_progress, completed, failed>>
    /\ lastcall' = QueueCallRecord("add_channels", ids, buffer' # buffer,
                                   Len(buffer') - Len(buffer), NoChannel)
    /\ UNCHANGED <<trackerVars, flagVars, worker, sched, callFrame>>

(* StreamCheckQueue.remove_from_completed(channel_id), as the scheduler
   calls it before it adds the channel again *)
RemoveFromCompletedCall(c) ==
    /\ RemoveFromCompleted(c)
    /\ lastcall' = QueueCallRecord("remove_from_completed", <<c>>,
                                   c \in completed, 0, c)
    /\ due' = DueAfterRemove(c)
    /\ UNCHANGED <<trackerVars, flagVars, worker, sched, callRest, admitted,
                   drainOwes>>

(* StreamCheckerService.clear_queue *)
ClearQueue ==
    /\ Clear
    /\ lastcall' = QueueCallRecord("clear", <<>>, TRUE, 0, NoChannel)
    /\ due' = DueAfterClear
    /\ UNCHANGED <<trackerVars, flagVars, worker, sched, callRest, admitted,
                   drainOwes>>

(* StreamCheckerService.start: sets running and starts both threads.  The
   model starts the service again once the threads of the last run ended. *)
Executing(thread) == thread.pc \notin {"off", "dead"}

(* StreamCheckerService.start: under self.lock, returns when running is set;
   otherwise sets it and starts a worker thread and a scheduler thread.  A
   loop of an earlier start() that has not ended goes on as worker / sched;
   the new thread beside it is recorded in extra, its iterations are not
   followed. *)
Start ==
    /\ ~running
    /\ running' = TRUE
    /\ worker' = IF Executing(worker) THEN worker
                 ELSE [pc |-> "idle", ch |-> NoChannel]
    /\ sched' = IF Executing(sched) THEN sched
                ELSE [pc |-> "wait", list |-> <<>>, i |-> 0]
    /\ extra' = [worker |-> extra.worker \/ Executing(worker),
                 sched |-> extra.sched \/ Executing(sched)]
    /\ UNCHANGED <<queueVars, trackerVars, check_trigger, config_changed,
                   global_action_in_progress, pipeline_mode, hist, max_size,
                   frequency, updater, scoring, lastcall, globalVars, dataVars, due, admitted,
                   drainOwes>>

(* StreamCheckerService.stop: clears running; the loops end at their next
   test of it *)
Stop ==
    /\ running
    /\ running' = FALSE
    /\ UNCHANGED <<queueVars, trackerVars, check_trigger, config_changed,
                   global_action_in_progress, pipeline_mode, worker, sched,
                   historyVars>>

----------------------------------------------------------------------------
(* The worker loop: _worker_loop and _check_channel.  At this level a check
   is known by its outcome; SpecCheck models its stream data. *)

(* get_next_channel, first half: queue.get(timeout) outside the lock *)
WorkerPop ==
    /\ worker.pc = "idle"
    /\ running
    /\ buffer # <<>>
    /\ buffer' = Tail(buffer)
    /\ worker' = [pc |-> "popped", ch |-> Head(buffer)[2]]
    /\ UNCHANGED <<queued, in_progress, completed, failed, stats, trackerVars,
                   flagVars, sched, historyVars>>

(* get_next_channel, second half: under the lock queued.discard and
   in_progress.add; then _check_channel(channel_id) begins *)
WorkerTake ==
    /\ worker.pc = "popped"
    /\ queued' = queued \ {worker.ch}
    /\ in_progress' = in_progress \cup {worker.ch}
    /\ stats' = [stats EXCEPT !.current_channel = worker.ch,
                              !.queue_size = Len(buffer)]
    /\ worker' = [worker EXCEPT !.pc = "check"]
    /\ due' = DueAfterCheckStart(worker.ch)
    /\ UNCHANGED <<buffer, completed, failed, trackerVars, flagVars, sched,
                   restVars, admitted, drainOwes>>

(* _check_channel fetched streams: should_force_check(channel_id) and, when
   it is set, clear_force_check(channel_id); the streams are then probed *)
WorkerShouldForceCheck ==
    /\ worker.pc = "check"
    /\ updates' = [updates EXCEPT ![worker.ch] =
                      IF ShouldForceCheck(@) THEN ClearForceCheck(@) ELSE @]
    /\ worker' = [worker EXCEPT !.pc = "probe"]
    /\ due' = DueAfterForceRead(worker.ch, ShouldForceCheck(updates[worker.ch]))
    /\ UNCHANGED <<queueVars, order, flagVars, sched, restVars, admitted,
                   drainOwes>>

(* _check_channel ran to its end: check_queue.mark_completed(channel_id) *)
WorkerMarkCompleted ==
    /\ worker.pc \in {"check", "probe"}
    /\ MarkCompleted(worker.ch)
    /\ worker' = [worker EXCEPT !.pc = "mark_checked"]
    /\ due' = DueAfterCompleted(worker.ch)
    /\ UNCHANGED <<trackerVars, flagVars, sched, restVars, admitted, drainOwes>>

(* ... followed by update_tracker.mark_channel_checked(channel_id) *)
WorkerMarkChecked ==
    /\ worker.pc = "mark_checked"
    /\ updates' = [updates EXCEPT ![worker.ch] =
                      CheckedRecord(updates[worker.ch], <<>>, FALSE)]
    /\ order' = TrackOrder(order, worker.ch)
    /\ worker' = [pc |-> "idle", ch |-> NoChannel]
    /\ UNCHANGED <<queueVars, flagVars, sched, historyVars>>

(* _check_channel raised an Exception: the except clause marks it failed *)
WorkerMarkFailed ==
    /\ worker.pc \in {"check", "probe"}
    /\ MarkFailed(worker.ch, "exception")
    /\ worker' = [pc |-> "idle", ch |-> NoChannel]
    /\ due' = DueAfterFailure(worker.ch)
    /\ UNCHANGED <<trackerVars, flagVars, sched, restVars, admitted, drainOwes>>

(* a collaborator called sys.exit(1) (api_utils._get_auth_headers after a
   failed login): SystemExit passes the `except Exception` clauses of
   _check_channel and of _worker_loop and ends the thread *)
WorkerSystemExit ==
    /\ worker.pc = "check"
    /\ worker' = [worker EXCEPT !.pc = "dead"]
    /\ UNCHANGED <<queueVars, trackerVars, flagVars, sched, historyVars>>

(* `while self.running` is false: the worker loop ends *)
WorkerExit ==
    /\ worker.pc = "idle"
    /\ ~running
    /\ worker' = [pc |-> "off", ch |-> NoChannel]
    /\ UNCHANGED <<queueVars, trackerVars, flagVars, sched, historyVars>>

----------------------------------------------------------------------------
(* The scheduler loop, first half: the wait and _queue_updated_channels *)

(* check_trigger.wait(timeout=60) returned True; check_trigger.clear();
   config_changed and global_action_in_progress are read *)
SchedTriggered ==
    /\ sched.pc = "wait"
    /\ running
    /\ check_trigger
    /\ check_trigger' = FALSE
    /\ sched' = [sched EXCEPT !.pc =
                    IF ~config_changed /\ ~global_action_in_progress
                    THEN "queue_updated" ELSE "config"]
    /\ UNCHANGED <<queueVars, trackerVars, running, config_changed,
                   global_action_in_progress, pipeline_mode, worker,
                   historyVars>>

(* check_trigger.wait(timeout=60) timed out *)
SchedTimeout ==
    /\ sched.pc = "wait"
    /\ running
    /\ ~check_trigger
    /\ sched' = [sched EXCEPT !.pc = "config"]
    /\ UNCHANGED <<queueVars, trackerVars, flagVars, worker, historyVars>>

(* `while self.running` is false for a loop recorded in extra *)
ExtraExit ==
    /\ ~running
    /\ extra # NoExtra
    /\ extra' = NoExtra
    /\ UNCHANGED <<queueVars, trackerVars, flagVars, worker, sched, hist,
                   max_size, frequency, updater, scoring, lastcall, globalVars,
                   dataVars, due, admitted, drainOwes>>

(* `while self.running` is false: the scheduler loop ends *)
SchedExit ==
    /\ sched.pc = "wait"
    /\ ~running
    /\ sched' = [pc |-> "off", list |-> <<>>, i |-> 0]
    /\ UNCHANGED <<queueVars, trackerVars, flagVars, worker, historyVars>>

(* _queue_updated_channels: the pipeline-mode gate, then
   get_and_clear_channels_needing_check(max_channels) *)
SchedGetAndClear ==
    /\ sched.pc = "queue_updated"
    /\ IF pipeline_mode \notin NoCheckOnUpdateModes
       THEN LET chans == NeedingCheck(updates, order, MaxChannelsPerRun, <<>>)
            IN  /\ updates' = ClearFlags(updates, chans)
                /\ sched' = [pc |-> IF chans = <<>> THEN "config" ELSE "remove",
                             list |-> chans, i |-> 1]
                /\ drainOwes' = IF hist = "admit"
                                THEN {c \in Channels : updates[c].needs_check
                                        /\ c \notin queued /\ c \notin in_progress}
                                ELSE drainOwes
                /\ due' = DueAfterDrain(chans)
       ELSE /\ sched' = [sched EXCEPT !.pc = "config"]
            /\ UNCHANGED <<updates, drainOwes, due>>
    /\ UNCHANGED <<queueVars, order, flagVars, worker, restVars, admitted>>

(* for channel_id in channels_to_queue: remove_from_completed(channel_id) *)
SchedRemoveFromCompleted ==
    /\ sched.pc = "remove"
    /\ RemoveFromCompleted(sched.list[sched.i])
    /\ sched' = IF sched.i = Len(sched.list)
                THEN [sched EXCEPT !.pc = "add", !.i = 1]
                ELSE [sched EXCEPT !.i = sched.i + 1]
    /\ UNCHANGED <<trackerVars, flagVars, worker, historyVars>>

(* add_channels(channels_to_queue, priority=10): one add_channel per id *)
SchedAddChannel ==
    /\ sched.pc = "add"
    /\ LET c == sched.list[sched.i]
       IN  /\ AddChannel(c, PriorityUpdate)
           /\ admitted' = AdmittedAfterAdd(c, CanAdd(c))
           /\ drainOwes' = IF CanAdd(c) THEN drainOwes \ {c} ELSE drainOwes
    /\ sched' = IF sched.i = Len(sched.list)
                THEN [sched EXCEPT !.pc = "drained", !.list = <<>>, !.i = 0]
                ELSE [sched EXCEPT !.i = sched.i + 1]
    /\ UNCHANGED <<trackerVars, flagVars, worker, restVars, due>>

----------------------------------------------------------------------------
(* The scheduler loop, second half: config_changed and the global schedule.
   now.tod is the time of day relative to the scheduled time: 0 more than
   ten minutes before it, 1 within the ten minutes before it, 2 from the
   scheduled time to ten minutes after it, 3 later. *)

(* frame of the actions of the global schedule *)
schedFrame == <<sideVars, dataVars, due, admitted>>

(* now >= scheduled_time_today *)
ReachedScheduledTime(t) == t.tod >= 2

(* abs(now - scheduled_time_today) <= 10 minutes *)
InScheduledWindow(t) == t.tod \in {1, 2}

(* config 'global_check_schedule.day_of_month' *)
ScheduledDayOfMonth == 1

(* last_check_time.month != now.month or the years differ or 30 days have
   passed: the days from 1 on are days of one month, day 0 is the last day
   of the month before *)
OtherMonth(t, last) == last < 1

(* a fresh start that runs at whatever time the service starts *)
ShouldRunGlobalOnStartup(t, last) ==
    IF last = NoDay
    THEN TRUE
    ELSE last # t.day /\ ReachedScheduledTime(t)

(* _check_global_schedule: the decision to run *)
ShouldRunGlobal(t, last) ==
    IF last = NoDay
    THEN InScheduledWindow(t)
    ELSE /\ IF frequency = "monthly"
            THEN t.day = ScheduledDayOfMonth /\ OtherMonth(t, last)
            ELSE last # t.day
         /\ ReachedScheduledTime(t)

(* _check_global_schedule is not called, or returns at once *)
SchedLoop ==
    /\ sched.pc \in {"config", "drained"}
    /\ \/ global_action_in_progress
       \/ ~schedule_enabled
       \/ pipeline_mode \notin ScheduledModes
    /\ config_changed' = FALSE
    /\ sched' = [pc |-> "wait", list |-> <<>>, i |-> 0]
    /\ drainOwes' = {}
    /\ due' = IF sched'.pc = "wait" THEN DueAfterPass ELSE due
    /\ UNCHANGED <<queueVars, trackerVars, running, check_trigger,
                   global_action_in_progress, pipeline_mode, worker,
                   restVars, admitted>>

(* _check_global_schedule reads now and last_global_check and decides *)
SchedCheckGlobalSchedule ==
    /\ sched.pc \in {"config", "drained"}
    /\ ~global_action_in_progress
    /\ schedule_enabled
    /\ pipeline_mode \in ScheduledModes
    /\ config_changed' = FALSE
    /\ sched' = [pc |-> IF ShouldRunGlobal(now, last_global_check)
                        THEN "perform" ELSE "wait",
                 list |-> <<>>, i |-> 0]
    /\ drainOwes' = {}
    /\ due' = IF sched'.pc = "wait" THEN DueAfterPass ELSE due
    /\ UNCHANGED <<queueVars, trackerVars, running, check_trigger,
                   global_action_in_progress, pipeline_mode, worker,
                   restVars, admitted>>

(* _perform_global_action begins: the flag is set *)
SchedPerformBegin ==
    /\ sched.pc = "perform"
    /\ global_action_in_progress' = TRUE
    /\ sched' = [sched EXCEPT !.pc = "refresh"]
    /\ lastcall' = CallRecord("_perform_global_action", <<>>, TRUE, now.day)
    /\ UNCHANGED <<queueVars, trackerVars, running, check_trigger,
                   config_changed, pipeline_mode, worker, globalVars,
                   staticVars, scoring, dataVars, due, admitted, drainOwes>>

(* steps 1 and 2, refresh_playlists and discover_and_assign_streams, return
   or raise an Exception, which is logged *)
SchedRefreshPlaylists ==
    /\ sched.pc = "refresh"
    /\ sched' = [sched EXCEPT !.pc = "queue_all"]
    /\ UNCHANGED <<queueVars, trackerVars, flagVars, worker, globalVars,
                   schedFrame, drainOwes>>

(* ... or a request of theirs ends in sys.exit(1): the finally clause clears
   the flag, mark_global_check is skipped and the scheduler thread ends *)
SchedRefreshExit ==
    /\ sched.pc = "refresh"
    /\ global_action_in_progress' = FALSE
    /\ sched' = [sched EXCEPT !.pc = "dead"]
    /\ UNCHANGED <<queueVars, trackerVars, running, check_trigger,
                   config_changed, pipeline_mode, worker, globalVars,
                   schedFrame, drainOwes>>

(* _queue_all_channels(force_check=True) over the channels the API lists:
   mark_channel_for_force_check and remove_from_completed for each, then
   add_channels(batch, priority=5) *)
QueueAllChannels ==
    LET ids == Ascending(Channels)
        buf == AddAllBuffer(buffer, queued \cup in_progress, ids, PriorityGlobal)
    IN  /\ updates' = [c \in Channels |-> ForceRecord(updates[c])]
        /\ order' = OrderAll(order, ids)
        /\ completed' = {}
        /\ buffer' = buf
        /\ queued' = queued \cup {buf[k][2] : k \in Len(buffer) + 1..Len(buf)}
        /\ stats' = IF buf = buffer THEN stats
                    ELSE [stats EXCEPT
                             !.total_queued = BumpBy(@, Len(buf) - Len(buffer)),
                             !.queue_size = Len(buf)]
        /\ UNCHANGED <<in_progress, failed>>

(* step 3: _queue_all_channels is called and returns; fetched = FALSE is
   the call whose channel fetch yields nothing; sched.list holds channel_ids *)
SchedQueueAllChannels ==
    /\ sched.pc = "queue_all"
    /\ \E fetched \in BOOLEAN :
          /\ IF fetched THEN QueueAllChannels
             ELSE UNCHANGED <<queueVars, trackerVars>>
          /\ sched' = [sched EXCEPT !.pc = "finally",
                                    !.list = IF fetched THEN Ascending(Channels)
                                             ELSE <<>>]
    /\ global_calls' = IF global_calls < 2 THEN global_calls + 1 ELSE global_calls
    /\ UNCHANGED <<flagVars, worker, last_global_check, schedule_enabled,
                   manual, now, schedFrame, drainOwes>>

(* ... or its channel fetch ends in sys.exit(1) *)
SchedQueueAllExit ==
    /\ sched.pc = "queue_all"
    /\ global_calls' = IF global_calls < 2 THEN global_calls + 1 ELSE global_calls
    /\ global_action_in_progress' = FALSE
    /\ sched' = [sched EXCEPT !.pc = "dead"]
    /\ UNCHANGED <<queueVars, trackerVars, running, check_trigger,
                   config_changed, pipeline_mode, worker, last_global_check,
                   schedule_enabled, manual, now, schedFrame, drainOwes>>

(* _perform_global_action ends: the finally clause clears the flag *)
SchedPerformEnd ==
    /\ sched.pc = "finally"
    /\ global_action_in_progress' = FALSE
    /\ sched' = [sched EXCEPT !.pc = "mark", !.list = <<>>]
    /\ UNCHANGED <<queueVars, trackerVars, running, check_trigger,
                   config_changed, pipeline_mode, worker, globalVars,
                   schedFrame, drainOwes>>

(* a mark_global_check that also clears the needs_check flags *)
MarkGlobalCheckClearing ==
    /\ last_global_check' = now.day
    /\ updates' = [c \in Channels |-> [updates[c] EXCEPT !.needs_check = FALSE]]
    /\ order' = order

(* ChannelUpdateTracker.mark_global_check(): writes
   updates['last_global_check'] and nothing else *)
MarkGlobalCheck ==
    /\ last_global_check' = now.day
    /\ updates' = updates
    /\ order' = order

(* update_tracker.mark_global_check() *)
SchedMarkGlobalCheck ==
    /\ sched.pc = "mark"
    /\ MarkGlobalCheck
    /\ sched' = [sched EXCEPT !.pc = "wait"]
    /\ due' = DueAfterPass
    /\ UNCHANGED <<queueVars, flagVars, worker, schedule_enabled, manual, now,
                   global_calls, sideVars, dataVars, admitted, drainOwes>>

(* trigger_global_action on another thread: _perform_global_action begins *)
ManualBegin ==
    /\ manual = "idle"
    /\ running
    /\ global_action_in_progress' = TRUE
    /\ manual' = "body"
    /\ lastcall' = CallRecord("trigger_global_action", <<>>, TRUE, now.day)
    /\ UNCHANGED <<queueVars, trackerVars, running, check_trigger,
                   config_changed, pipeline_mode, worker, sched,
                   last_global_check, schedule_enabled, now, global_calls,
                   staticVars, scoring, dataVars, due, admitted, drainOwes>>

(* ... its three steps run and the finally clause clears the flag *)
ManualQueueAllChannels ==
    /\ manual = "body"
    /\ QueueAllChannels
    /\ global_action_in_progress' = FALSE
    /\ manual' = "mark"
    /\ due' = DueAfterSweep
    /\ UNCHANGED <<running, check_trigger, config_changed, pipeline_mode,
                   worker, sched, last_global_check, schedule_enabled, now,
                   global_calls, sideVars, dataVars, admitted, drainOwes>>

(* ... and trigger_global_action calls mark_global_check() *)
ManualMarkGlobalCheck ==
    /\ manual = "mark"
    /\ MarkGlobalCheck
    /\ manual' = "idle"
    /\ UNCHANGED <<queueVars, flagVars, worker, sched, schedule_enabled, now,
                   global_calls, schedFrame, drainOwes>>

(* the clock advances to the next part of the day, or to the next day *)
Tick ==
    /\ now.tod < 3 \/ now.day < MaxDay
    /\ now' = IF now.tod < 3 THEN [now EXCEPT !.tod = now.tod + 1]
              ELSE [day |-> now.day + 1, tod |-> 0]
    /\ global_calls' = IF now.tod < 3 THEN global_calls ELSE 0
    /\ UNCHANGED <<queueVars, trackerVars, flagVars, worker, sched,
                   last_global_check, schedule_enabled, manual, schedFrame,
                   drainOwes>>

----------------------------------------------------------------------------
(* get_and_clear_channels_needing_check called twice (SpecTracker) *)

trackerFrame == <<queueVars, flagVars, worker, sched, sideVars, globalVars, chk,
                  threads, provider_semaphores, due, admitted, drainOwes>>

(* one call with max_channels = tcall.max_channels *)
(* mark_channel_checked(channel_id, checked_stream_ids=ids), called on the
   tracker *)
MarkChannelChecked(c, ids) ==
    /\ updates' = [updates EXCEPT ![c] = CheckedRecord(@, ids, TRUE)]
    /\ order' = TrackOrder(order, c)
    /\ lastcall' = CallRecord("mark_channel_checked", <<c>>, TRUE, 1)
    /\ UNCHANGED <<queueVars, flagVars, worker, sched, staticVars, scoring,
                   globalVars, tcall, chk, threads, provider_semaphores, due,
                   admitted, drainOwes>>

GetAndClearCall ==
    /\ Len(tcall.results) < 2
    /\ LET chans == NeedingCheck(updates, order, tcall.max_channels, <<>>)
       IN  /\ updates' = ClearFlags(updates, chans)
           /\ tcall' = [tcall EXCEPT !.results = Append(@, chans)]
    /\ UNCHANGED <<order, trackerFrame>>

(* ChannelUpdateTracker.mark_channel_updated(channel_id); tcall notes a
   mark that falls between the two calls *)
MarkChannelUpdated(c) ==
    /\ updates' = [updates EXCEPT ![c] = UpdatedRecord(@)]
    /\ order' = TrackOrder(order, c)
    /\ tcall' = [tcall EXCEPT !.marked = @ \/ Len(tcall.results) = 1]
    /\ lastcall' = CallRecord("mark_channel_updated", <<c>>, TRUE, 1)
    /\ UNCHANGED <<queueVars, flagVars, worker, sched, staticVars, scoring,
                   globalVars, chk, threads, provider_semaphores, due,
                   admitted, drainOwes>>

----------------------------------------------------------------------------
(* The stream data of _check_channel (SpecCheck).  A stream is its id; its
   score is what _calculate_stream_score makes of its statistics. *)

StreamIds == 1..NumStreams
Scores == 0..MaxScore
CheckedChannel == 1

checkFrame == <<buffer, queued, flagVars, sched, sideVars, globalVars, tcall,
                threads, provider_semaphores, due, admitted, drainOwes>>

(* a sorter whose _analyze_stream_task also takes user_agent *)
AnalyzeParamsUserAgent ==
    {"row", "ffmpeg_duration", "idet_frames", "timeout", "retries",
     "retry_delay", "config", "user_agent"}

(* def _analyze_stream_task(row, ffmpeg_duration, idet_frames, timeout,
   retries, retry_delay, config): the parameters of the sorter's function *)
AnalyzeParams ==
    {"row", "ffmpeg_duration", "idet_frames", "timeout", "retries",
     "retry_delay", "config"}

(* the keyword arguments of the service's calls of _analyze_stream_task
   (the row is passed by position) *)
ServiceKeywords ==
    {"ffmpeg_duration", "idet_frames", "timeout", "retries", "retry_delay",
     "config", "user_agent"}

(* Python binds a call when every keyword names a parameter; otherwise the
   call raises TypeError before the function body runs *)
CallBinds(keywords, params) == keywords \subseteq params

(* streams_to_check / streams_already_checked of a check that is not forced *)
StreamsToCheck(streams, checked) ==
    SelectSeq(streams, LAMBDA s : s \notin checked)

(* a split that loses the first of the streams already checked *)
StreamsAlreadyCheckedButFirst(streams, checked) ==
    LET kept == SelectSeq(streams, LAMBDA s : s \in checked)
    IN  IF kept = <<>> THEN kept ELSE Tail(kept)

StreamsAlreadyChecked(streams, checked) ==
    SelectSeq(streams, LAMBDA s : s \in checked)

(* analyzed_streams.sort(key=score, reverse=True): a stable sort, rows of
   equal score keep their order in analyzed_streams *)
RECURSIVE SortByScore(_, _)
SortByScore(rows, k) ==
    IF k < 0 THEN <<>>
    ELSE SelectSeq(rows, LAMBDA r : r.score = k) \o SortByScore(rows, k - 1)

(* reordered_ids = [s['stream_id'] for s in analyzed_streams] *)
StreamIdsOf(rows) == [k \in DOMAIN rows |-> rows[k].stream_id]

IdleCheck ==
    [pc |-> "none", streams |-> <<>>, to_check |-> <<>>, already |-> <<>>,
     i |-> 0, j |-> 0, analyzed |-> <<>>, written |-> <<>>, wrote |-> FALSE,
     answered |-> TRUE, called |-> {}, writes |-> 0]

WorkerIdle == [pc |-> "idle", ch |-> NoChannel]

(* the except clause of _check_channel: mark_failed *)
CheckRaises ==
    /\ MarkFailed(CheckedChannel, "exception")
    /\ worker' = WorkerIdle
    /\ UNCHANGED trackerVars

(* the channel and its streams are fetched; the streams are split by
   force_check and checked_stream_ids *)
CheckFetchStreams(streams) ==
    /\ chk.pc = "fetch"
    /\ LET rec == updates[CheckedChannel]
           force == ShouldForceCheck(rec)
           checked == Range(rec.checked_stream_ids)
       IN  IF streams = <<>>
           THEN /\ MarkCompleted(CheckedChannel)
                /\ updates' = [updates EXCEPT ![CheckedChannel] =
                                  CheckedRecord(rec, <<>>, FALSE)]
                /\ order' = TrackOrder(order, CheckedChannel)
                /\ worker' = WorkerIdle
                /\ chk' = [chk EXCEPT !.pc = "done"]
           ELSE /\ updates' = IF force
                              THEN [updates EXCEPT ![CheckedChannel] =
                                       ClearForceCheck(rec)]
                              ELSE updates
                /\ chk' = [chk EXCEPT
                      !.pc = "probe",
                      !.streams = streams,
                      !.to_check = IF force THEN streams
                                   ELSE StreamsToCheck(streams, checked),
                      !.already = IF force THEN <<>>
                                  ELSE StreamsAlreadyChecked(streams, checked)]
                /\ UNCHANGED <<in_progress, completed, failed, stats, order,
                               worker>>
    /\ UNCHANGED checkFrame

(* fetch_data_from_url returned nothing for the channel: raise Exception *)
CheckFetchFailed ==
    /\ chk.pc = "fetch"
    /\ CheckRaises
    /\ chk' = [chk EXCEPT !.pc = "failed", !.answered = FALSE]
    /\ UNCHANGED checkFrame

(* a request of the check ends in sys.exit(1) *)
CheckSystemExit ==
    /\ chk.pc \in {"fetch", "probe"}
    /\ chk' = [chk EXCEPT !.pc = "dead", !.answered = FALSE]
    /\ worker' = [worker EXCEPT !.pc = "dead"]
    /\ UNCHANGED <<in_progress, completed, failed, stats, trackerVars,
                   checkFrame>>

(* the row of a probed stream joins analyzed_streams, or the call of
   _analyze_stream_task does not bind and the check fails; called records
   the streams _analyze_stream_task was called for *)
ProbeInto(stream, nextChk) ==
    IF CallBinds(ServiceKeywords, AnalyzeParams)
    THEN /\ \E sc \in Scores :
               chk' = [nextChk EXCEPT
                          !.called = @ \cup {stream},
                          !.analyzed =
                             Append(@, [stream_id |-> stream, score |-> sc])]
         /\ UNCHANGED <<in_progress, completed, failed, stats, trackerVars,
                        worker>>
    ELSE /\ CheckRaises
         /\ chk' = [chk EXCEPT !.pc = "failed", !.answered = nextChk.answered,
                               !.called = @ \cup {stream}]

(* for stream in streams_to_check: _analyze_stream_task(stream_row, ...) *)
CheckProbe ==
    /\ chk.pc = "probe"
    /\ chk.i < Len(chk.to_check)
    /\ ProbeInto(chk.to_check[chk.i + 1], [chk EXCEPT !.i = chk.i + 1])
    /\ UNCHANGED checkFrame

(* for stream in streams_already_checked: the stream's statistics are
   fetched and scored *)
CheckCachedLoaded ==
    /\ chk.pc = "probe"
    /\ chk.i = Len(chk.to_check)
    /\ chk.j < Len(chk.already)
    /\ \E sc \in Scores :
          chk' = [chk EXCEPT !.j = chk.j + 1, !.analyzed =
                     Append(@, [stream_id |-> chk.already[chk.j + 1],
                                score |-> sc])]
    /\ UNCHANGED <<in_progress, completed, failed, stats, trackerVars, worker,
                   checkFrame>>

(* ... or the fetch returned nothing and the stream is probed instead *)
CheckCachedFallback ==
    /\ chk.pc = "probe"
    /\ chk.i = Len(chk.to_check)
    /\ chk.j < Len(chk.already)
    /\ ProbeInto(chk.already[chk.j + 1],
                 [chk EXCEPT !.j = chk.j + 1, !.answered = FALSE])
    /\ UNCHANGED checkFrame

(* a check that issues the reorder write while streams are still to be
   probed or loaded *)
CheckWriteEarly ==
    /\ chk.pc = "probe"
    /\ chk' = [chk EXCEPT !.pc = "done", !.wrote = TRUE, !.writes = @ + 1,
                  !.written = StreamIdsOf(SortByScore(chk.analyzed, MaxScore))]
    /\ MarkCompleted(CheckedChannel)
    /\ updates' = [updates EXCEPT ![CheckedChannel] =
                      CheckedRecord(@, chk.streams, TRUE)]
    /\ order' = TrackOrder(order, CheckedChannel)
    /\ worker' = WorkerIdle
    /\ UNCHANGED checkFrame

(* sort, update_channel_streams(channel_id, reordered_ids), mark_completed,
   mark_channel_checked(channel_id, stream_count, current_stream_ids);
   writes counts the calls of update_channel_streams *)
CheckWrite ==
    /\ chk.pc = "probe"
    /\ chk.i = Len(chk.to_check)
    /\ chk.j = Len(chk.already)
    /\ chk' = [chk EXCEPT !.pc = "done", !.wrote = TRUE, !.writes = @ + 1,
                  !.written = StreamIdsOf(SortByScore(chk.analyzed, MaxScore))]
    /\ MarkCompleted(CheckedChannel)
    /\ updates' = [updates EXCEPT ![CheckedChannel] =
                      CheckedRecord(@, chk.streams, TRUE)]
    /\ order' = TrackOrder(order, CheckedChannel)
    /\ worker' = WorkerIdle
    /\ UNCHANGED checkFrame

(* ... or update_channel_streams raises *)
CheckWriteFailed ==
    /\ chk.pc = "probe"
    /\ chk.i = Len(chk.to_check)
    /\ chk.j = Len(chk.already)
    /\ CheckRaises
    /\ chk' = [chk EXCEPT !.pc = "failed", !.answered = FALSE,
                          !.writes = @ + 1]
    /\ UNCHANGED checkFrame

----------------------------------------------------------------------------
(* The callers of _analyze_stream_task (SpecProbe).  Thread CliThread is the
   main thread of the sorter run as a program (analyze_streams,
   retry_failed_streams); threads 1..NumWorkers are worker threads of the
   service, which run _check_channel.  provider_semaphores[t] is the dict of
   the module instance thread t calls into. *)

CliThread == 0
Workers == 1..NumWorkers
ThreadIds == {CliThread} \cup Workers
Providers == 1..NumProviders
(* the providers of the rows the sorter analyzes, in turn *)
ProviderLists == UNION {[1..n -> Providers] : n \in 1..MaxProbes}

(* the process a thread belongs to *)
ProcessOf(t) == IF t = CliThread THEN "sorter" ELSE "service"

NoSemaphores == [p \in Providers |-> "absent"]

probeFrame == <<queueVars, trackerVars, flagVars, worker, sched, sideVars,
                globalVars, tcall, chk, due, admitted, drainOwes>>

(* _check_channel executes the sorter module anew (spec_from_file_location,
   module_from_spec, exec_module): the new instance has an empty
   provider_semaphores *)
ProbeExecModule(t) ==
    /\ t \in Workers
    /\ threads[t].pc = "idle"
    /\ threads' = [threads EXCEPT ![t] = [pc |-> "loaded", todo |-> <<>>]]
    /\ provider_semaphores' = [provider_semaphores EXCEPT ![t] = NoSemaphores]
    /\ UNCHANGED probeFrame

(* the service calls _analyze_stream_task(stream_row, ..., user_agent=...)
   for a stream of provider p; a call that does not bind ends the check *)
ProbeServiceCall(t, p) ==
    /\ t \in Workers
    /\ threads[t].pc = "loaded"
    /\ threads' = [threads EXCEPT ![t] =
                      IF CallBinds(ServiceKeywords, AnalyzeParams)
                      THEN [pc |-> "entered", todo |-> <<p>>]
                      ELSE [pc |-> "idle", todo |-> <<>>]]
    /\ UNCHANGED <<provider_semaphores, probeFrame>>

(* the check has no stream left to probe and ends *)
ProbeCheckEnds(t) ==
    /\ t \in Workers
    /\ threads[t].pc = "loaded"
    /\ threads' = [threads EXCEPT ![t] = [pc |-> "idle", todo |-> <<>>]]
    /\ UNCHANGED <<provider_semaphores, probeFrame>>

(* analyze_streams / retry_failed_streams call _analyze_stream_task by
   position for each row in turn; urls lists the providers of the rows *)
ProbeCliCall(urls) ==
    /\ threads[CliThread].pc = "idle"
    /\ threads' = [threads EXCEPT ![CliThread] =
                      [pc |-> "entered", todo |-> urls]]
    /\ UNCHANGED <<provider_semaphores, probeFrame>>

(* with semaphore_lock: the provider's semaphore is created when absent *)
ProbeGetSemaphore(t) ==
    /\ threads[t].pc = "entered"
    /\ LET p == Head(threads[t].todo)
       IN  provider_semaphores' =
               [provider_semaphores EXCEPT ![t][p] =
                   IF @ = "absent" THEN "free" ELSE @]
    /\ threads' = [threads EXCEPT ![t].pc = "acquire"]
    /\ UNCHANGED probeFrame

(* with provider_semaphore: acquired, the probe is in flight *)
ProbeAcquire(t) ==
    /\ threads[t].pc = "acquire"
    /\ provider_semaphores[t][Head(threads[t].todo)] = "free"
    /\ provider_semaphores' =
           [provider_semaphores EXCEPT ![t][Head(threads[t].todo)] = "held"]
    /\ threads' = [threads EXCEPT ![t].pc = "in_flight"]
    /\ UNCHANGED probeFrame

(* the with block ends: released; the caller goes on to its next row *)
ProbeRelease(t) ==
    /\ threads[t].pc = "in_flight"
    /\ provider_semaphores' =
           [provider_semaphores EXCEPT ![t][Head(threads[t].todo)] = "free"]
    /\ threads' = [threads EXCEPT ![t] =
                      IF t \in Workers THEN [pc |-> "loaded", todo |-> <<>>]
                      ELSE IF Tail(@.todo) = <<>>
                           THEN [pc |-> "idle", todo |-> <<>>]
                           ELSE [pc |-> "entered", todo |-> Tail(@.todo)]]
    /\ UNCHANGED probeFrame

(* the next check of the channel begins: it was queued again and popped *)
CheckAgain ==
    /\ chk.pc \in {"done", "failed"}
    /\ chk' = [IdleCheck EXCEPT !.pc = "fetch"]
    /\ completed' = completed \ {CheckedChannel}
    /\ in_progress' = in_progress \cup {CheckedChannel}
    /\ stats' = [stats EXCEPT !.total_queued = BumpBy(@, 1),
                              !.current_channel = CheckedChannel,
                              !.queue_size = 0]
    /\ worker' = [pc |-> "check", ch |-> CheckedChannel]
    /\ UNCHANGED <<failed, trackerVars, checkFrame>>

----------------------------------------------------------------------------
(* Initial states *)

InitQueue ==
    /\ buffer = <<>>
    /\ queued = {}
    /\ in_progress = {}
    /\ completed = {}
    /\ failed = [c \in Channels |-> NoError]
    /\ stats = ZeroStats

(* the queue is built with max_size = config 'queue.max_size' *)
InitConfig == max_size = MaxSize

(* no call is under observation, no score has been computed *)
InitSide ==
    /\ lastcall = NoCall
    /\ scoring = NoScoring

(* no channel_updates.json: the tracker starts empty *)
InitTracker ==
    /\ updates = [c \in Channels |-> NewRecord]
    /\ order = <<>>

(* StreamCheckerService.__init__ *)
InitFlagsWith(mode, freq) ==
    /\ running = FALSE
    /\ check_trigger = FALSE
    /\ config_changed = FALSE
    /\ global_action_in_progress = FALSE
    /\ pipeline_mode = mode
    /\ frequency = freq

(* ... with StreamCheckConfig.DEFAULT_CONFIG *)
InitFlags == InitFlagsWith("pipeline_1_5", "daily")

InitThreads ==
    /\ extra = NoExtra
    /\ updater = "idle"
    /\ worker = [pc |-> "off", ch |-> NoChannel]
    /\ sched = [pc |-> "off", list |-> <<>>, i |-> 0]
    /\ manual = "idle"

InitHistory(h) ==
    /\ hist = h
    /\ due = [c \in Channels |-> "no"]
    /\ admitted = [c \in Channels |-> 0]
    /\ drainOwes = {}
    /\ global_calls = 0

(* the global schedule switched off ('global_check_schedule.enabled') *)
InitNoSchedule ==
    /\ schedule_enabled = FALSE
    /\ last_global_check = NoDay
    /\ now = [day |-> 1, tod |-> 0]

InitTrackerCall == tcall = [max_channels |-> 0, results |-> <<>>, marked |-> FALSE]

InitCheck == chk = IdleCheck

InitProbe ==
    /\ threads = [t \in ThreadIds |-> [pc |-> "idle", todo |-> <<>>]]
    /\ provider_semaphores = [t \in ThreadIds |-> NoSemaphores]

InitService(h) ==
    /\ InitQueue
    /\ InitConfig
    /\ InitSide
    /\ InitTracker
    /\ InitFlags
    /\ InitThreads
    /\ InitHistory(h)
    /\ InitNoSchedule
    /\ InitTrackerCall
    /\ InitCheck
    /\ InitProbe

----------------------------------------------------------------------------
(* Spec: the queue, its API callers and the worker loop *)

Init == InitService("none")

Next ==
    \/ \E c \in Channels, p \in Priorities : QueueChannel(c, p)
    \/ \E c \in Channels : RemoveFromCompletedCall(c)
    \/ ClearQueue
    \/ Start
    \/ WorkerPop
    \/ WorkerTake
    \/ WorkerMarkCompleted
    \/ WorkerMarkChecked
    \/ WorkerMarkFailed
    \/ WorkerSystemExit

Spec == Init /\ [][Next]_vars

----------------------------------------------------------------------------
(* SpecQueue, SpecLife: the queue built with any max_size, its API callers
   and the worker loop.  In SpecQueue lastcall records the calls, in SpecLife
   due records the channels that entered completed. *)

InitQueueSpec(h) ==
    /\ InitQueue
    /\ max_size \in 0..NumChannels
    /\ InitSide
    /\ InitTracker
    /\ InitFlags
    /\ InitThreads
    /\ InitHistory(h)
    /\ InitNoSchedule
    /\ InitTrackerCall
    /\ InitCheck
    /\ InitProbe

NextQueue ==
    \/ \E c \in Channels, p \in {PriorityUpdate, PriorityCheckNow} :
          QueueChannel(c, p)
    \/ \E ids \in Orders(Channels) : AddChannels(ids, PriorityGlobal)
    \/ \E c \in Channels : RemoveFromCompletedCall(c)
    \/ ClearQueue
    \/ Start
    \/ WorkerPop
    \/ WorkerTake
    \/ WorkerMarkCompleted
    \/ WorkerMarkChecked
    \/ WorkerMarkFailed

InitQueueCalls == InitQueueSpec("queue")

SpecQueue == InitQueueCalls /\ [][NextQueue]_vars

InitLife == InitQueueSpec("life")

SpecLife == InitLife /\ [][NextQueue]_vars

----------------------------------------------------------------------------
(* SpecMissed, SpecAdmit: the tracker, the scheduler loop with the global
   schedule switched off, the queue and the worker loop *)

NextDrain ==
    \/ \E S \in (SUBSET Channels) \ {{}} : MarkChannelsUpdated(Ascending(S))
    \/ TriggerCheckUpdatedChannels
    \/ \E c \in Channels : QueueChannel(c, PriorityUpdate)
    \/ Start
    \/ WorkerPop
    \/ WorkerTake
    \/ WorkerMarkCompleted
    \/ WorkerMarkChecked
    \/ WorkerMarkFailed
    \/ WorkerSystemExit
    \/ SchedTriggered
    \/ SchedTimeout
    \/ SchedGetAndClear
    \/ SchedRemoveFromCompleted
    \/ SchedAddChannel
    \/ SchedLoop

InitMissed == InitService("missed")

SpecMissed == InitMissed /\ [][NextDrain]_vars

InitAdmit == InitService("admit")

SpecAdmit == InitAdmit /\ [][NextDrain]_vars

----------------------------------------------------------------------------
(* SpecTracker: any tracker state, any max_channels, two calls *)

(* the records of a channel_updates.json *)
TrackerStates ==
    {u \in [Channels -> [tracked : BOOLEAN, needs_check : BOOLEAN,
                         force_check : {FALSE}, has_last_check : {FALSE},
                         checked_stream_ids : {<<>>}]] :
        \A c \in Channels : u[c].needs_check => u[c].tracked}

InitTrackerSpec ==
    /\ InitQueue
    /\ InitConfig
    /\ InitSide
    /\ updates \in TrackerStates
    /\ order \in Orders({c \in Channels : updates[c].tracked})
    /\ InitFlags
    /\ InitThreads
    /\ InitHistory("none")
    /\ InitNoSchedule
    /\ tcall \in [max_channels : 0..NumChannels, results : {<<>>},
                  marked : {FALSE}]
    /\ InitCheck
    /\ InitProbe

NextTracker ==
    \/ GetAndClearCall
    \/ \E c \in Channels : MarkChannelUpdated(c)

SpecTracker == InitTrackerSpec /\ [][NextTracker]_vars

----------------------------------------------------------------------------
(* SpecSched: the global schedule, daily frequency *)

InitSched ==
    /\ InitQueue
    /\ InitConfig
    /\ InitSide
    /\ InitTracker
    /\ InitFlags
    /\ InitThreads
    /\ InitHistory("none")
    /\ schedule_enabled = TRUE
    /\ last_global_check \in {NoDay, 0, 1}
    /\ now = [day |-> 1, tod |-> 0]
    /\ InitTrackerCall
    /\ InitCheck
    /\ InitProbe

NextSched ==
    \/ Start
    \/ Stop
    \/ WorkerExit
    \/ SchedExit
    \/ SchedTimeout
    \/ SchedLoop
    \/ SchedCheckGlobalSchedule
    \/ SchedPerformBegin
    \/ SchedRefreshPlaylists
    \/ SchedRefreshExit
    \/ SchedQueueAllChannels
    \/ SchedQueueAllExit
    \/ SchedPerformEnd
    \/ SchedMarkGlobalCheck
    \/ ManualBegin
    \/ ManualQueueAllChannels
    \/ ManualMarkGlobalCheck
    \/ Tick

SpecSched == InitSched /\ [][NextSched]_vars

----------------------------------------------------------------------------
(* SpecRetry: the tracker, the scheduler loop with the drain and the global
   schedule, the queue and the worker loop, at the scheduled time of a day
   with no global check yet; due records the channels whose check failed.
   SpecGlobal: the scheduler loop and a manual trigger_global_action on
   another thread, with no worker. *)

InitGlobalWith(h) ==
    /\ InitQueue
    /\ InitConfig
    /\ InitSide
    /\ InitTracker
    /\ InitFlags
    /\ InitThreads
    /\ InitHistory(h)
    /\ schedule_enabled = TRUE
    /\ last_global_check = 0
    /\ now = [day |-> 1, tod |-> 2]
    /\ InitTrackerCall
    /\ InitCheck
    /\ InitProbe

NextRetry ==
    \/ \E S \in (SUBSET Channels) \ {{}} : MarkChannelsUpdated(Ascending(S))
    \/ TriggerCheckUpdatedChannels
    \/ Start
    \/ WorkerPop
    \/ WorkerTake
    \/ WorkerMarkCompleted
    \/ WorkerMarkChecked
    \/ WorkerMarkFailed
    \/ SchedTriggered
    \/ SchedTimeout
    \/ SchedGetAndClear
    \/ SchedRemoveFromCompleted
    \/ SchedAddChannel
    \/ SchedCheckGlobalSchedule
    \/ SchedPerformBegin
    \/ SchedRefreshPlaylists
    \/ SchedQueueAllChannels
    \/ SchedPerformEnd
    \/ SchedMarkGlobalCheck

InitRetry == InitGlobalWith("retry")

SpecRetry == InitRetry /\ [][NextRetry]_vars

NextGlobal ==
    \/ \E c \in Channels : MarkChannelsUpdated(<<c>>)
    \/ TriggerCheckUpdatedChannels
    \/ Start
    \/ SchedTriggered
    \/ SchedTimeout
    \/ SchedGetAndClear
    \/ SchedRemoveFromCompleted
    \/ SchedAddChannel
    \/ SchedLoop
    \/ SchedCheckGlobalSchedule
    \/ SchedPerformBegin
    \/ SchedRefreshPlaylists
    \/ SchedQueueAllChannels
    \/ SchedPerformEnd
    \/ SchedMarkGlobalCheck
    \/ ManualBegin
    \/ ManualQueueAllChannels
    \/ ManualMarkGlobalCheck

InitGlobal == InitGlobalWith("none")

SpecGlobal == InitGlobal /\ [][NextGlobal]_vars

----------------------------------------------------------------------------
(* SpecLoops: start() and stop() called in any order while channels are
   queued and checked; the global schedule is switched off *)

NextLoops ==
    \/ \E c \in Channels : QueueChannel(c, PriorityUpdate)
    \/ Start
    \/ Stop
    \/ WorkerPop
    \/ WorkerTake
    \/ WorkerMarkCompleted
    \/ WorkerMarkChecked
    \/ WorkerMarkFailed
    \/ WorkerExit
    \/ SchedTimeout
    \/ SchedLoop
    \/ SchedExit
    \/ ExtraExit

InitLoops == InitService("none")

SpecLoops == InitLoops /\ [][NextLoops]_vars

----------------------------------------------------------------------------
(* SpecSweep: a manual global action while channels are queued and checked;
   the queue has room for every channel, the global schedule is switched
   off; records which channels the sweep marked and which checks were
   forced *)

NextSweep ==
    \/ \E c \in Channels : QueueChannel(c, PriorityUpdate)
    \/ Start
    \/ ManualBegin
    \/ ManualQueueAllChannels
    \/ ManualMarkGlobalCheck
    \/ WorkerPop
    \/ WorkerTake
    \/ WorkerShouldForceCheck
    \/ WorkerMarkCompleted
    \/ WorkerMarkChecked
    \/ WorkerMarkFailed

InitSweep ==
    /\ InitQueue
    /\ max_size = NumChannels
    /\ InitSide
    /\ InitTracker
    /\ InitFlags
    /\ InitThreads
    /\ InitHistory("sweep")
    /\ InitNoSchedule
    /\ InitTrackerCall
    /\ InitCheck
    /\ InitProbe

SpecSweep == InitSweep /\ [][NextSweep]_vars

----------------------------------------------------------------------------
(* SpecForce: SpecSweep with M3U updates marking channels between the sweep
   of a global action and the checks of the worker *)

NextForce ==
    \/ \E S \in (SUBSET Channels) \ {{}} : MarkChannelsUpdated(Ascending(S))
    \/ \E c \in Channels : QueueChannel(c, PriorityUpdate)
    \/ Start
    \/ ManualBegin
    \/ ManualQueueAllChannels
    \/ ManualMarkGlobalCheck
    \/ WorkerPop
    \/ WorkerTake
    \/ WorkerShouldForceCheck
    \/ WorkerMarkCompleted
    \/ WorkerMarkChecked
    \/ WorkerMarkFailed

SpecForce == InitSweep /\ [][NextForce]_vars

----------------------------------------------------------------------------
(* SpecConfig: update_config against the scheduler loop; channels are marked
   but trigger_check_updated_channels is never called, the global schedule
   is switched off *)

NextConfig ==
    \/ \E S \in (SUBSET Channels) \ {{}} : MarkChannelsUpdated(Ascending(S))
    \/ Start
    \/ Stop
    \/ UpdateConfigSetChanged
    \/ UpdateConfigSetTrigger
    \/ SchedTriggered
    \/ SchedTimeout
    \/ SchedGetAndClear
    \/ SchedRemoveFromCompleted
    \/ SchedAddChannel
    \/ SchedLoop
    \/ SchedExit

InitConfigCalls == InitService("none")

SpecConfig == InitConfigCalls /\ [][NextConfig]_vars

----------------------------------------------------------------------------
(* SpecDaily: the daily schedule with a global check recorded the day
   before, the clock and manual global actions; every step of a global
   action returns.  lastcall records the day the latest global action
   started. *)

NextDaily ==
    \/ Start
    \/ SchedTimeout
    \/ SchedLoop
    \/ SchedCheckGlobalSchedule
    \/ SchedPerformBegin
    \/ SchedRefreshPlaylists
    \/ SchedQueueAllChannels
    \/ SchedPerformEnd
    \/ SchedMarkGlobalCheck
    \/ ManualBegin
    \/ ManualQueueAllChannels
    \/ ManualMarkGlobalCheck
    \/ Tick

InitDaily ==
    /\ InitQueue
    /\ InitConfig
    /\ InitSide
    /\ InitTracker
    /\ InitFlags
    /\ InitThreads
    /\ InitHistory("daily")
    /\ schedule_enabled = TRUE
    /\ last_global_check = 0
    /\ now = [day |-> 1, tod |-> 0]
    /\ InitTrackerCall
    /\ InitCheck
    /\ InitProbe

SpecDaily == InitDaily /\ [][NextDaily]_vars

----------------------------------------------------------------------------
(* SpecMonthly: the schedule with monthly frequency, the configured day of
   the month being day 1; every step of a global action returns *)

InitMonthly ==
    /\ InitQueue
    /\ InitConfig
    /\ InitSide
    /\ InitTracker
    /\ InitFlagsWith("pipeline_1_5", "monthly")
    /\ InitThreads
    /\ InitHistory("none")
    /\ schedule_enabled = TRUE
    /\ last_global_check \in {NoDay, 0, 1}
    /\ now = [day |-> 1, tod |-> 0]
    /\ InitTrackerCall
    /\ InitCheck
    /\ InitProbe

SpecMonthly == InitMonthly /\ [][NextDaily]_vars

----------------------------------------------------------------------------
(* SpecModes: the scheduler loop under every pipeline mode, with the global
   schedule enabled or not: marks, triggers, the drain and the scheduled
   global action, a last global check being recorded *)

PipelineModes ==
    {"disabled", "pipeline_1", "pipeline_1_5", "pipeline_2", "pipeline_2_5",
     "pipeline_3"}

NextModes ==
    \/ \E S \in (SUBSET Channels) \ {{}} : MarkChannelsUpdated(Ascending(S))
    \/ TriggerCheckUpdatedChannels
    \/ Start
    \/ SchedTriggered
    \/ SchedTimeout
    \/ SchedGetAndClear
    \/ SchedRemoveFromCompleted
    \/ SchedAddChannel
    \/ SchedLoop
    \/ SchedCheckGlobalSchedule
    \/ SchedPerformBegin
    \/ SchedRefreshPlaylists
    \/ SchedQueueAllChannels
    \/ SchedPerformEnd
    \/ SchedMarkGlobalCheck
    \/ Tick

InitModes ==
    /\ InitQueue
    /\ InitConfig
    /\ InitSide
    /\ InitTracker
    /\ \E mode \in PipelineModes : InitFlagsWith(mode, "daily")
    /\ InitThreads
    /\ InitHistory("none")
    /\ schedule_enabled \in BOOLEAN
    /\ last_global_check = 0
    /\ now = [day |-> 1, tod |-> 0]
    /\ InitTrackerCall
    /\ InitCheck
    /\ InitProbe

SpecModes == InitModes /\ [][NextModes]_vars

----------------------------------------------------------------------------
(* SpecWake: marks, trigger_check_updated_channels, update_config and a
   manual trigger_global_action against the scheduler loop, the global
   schedule switched off.  The scheduler thread and the thread of the manual
   action are scheduled fairly: check_trigger.wait returns after 60 seconds
   at the latest and no step of theirs blocks. *)

SchedStep ==
    \/ SchedTriggered
    \/ SchedTimeout
    \/ SchedGetAndClear
    \/ SchedRemoveFromCompleted
    \/ SchedAddChannel
    \/ SchedLoop

ManualStep ==
    \/ ManualQueueAllChannels
    \/ ManualMarkGlobalCheck

NextWake ==
    \/ \E S \in (SUBSET Channels) \ {{}} : MarkChannelsUpdated(Ascending(S))
    \/ TriggerCheckUpdatedChannels
    \/ UpdateConfig
    \/ Start
    \/ ManualBegin
    \/ ManualStep
    \/ SchedStep

InitWake == InitService("wake")

SpecWake ==
    /\ InitWake
    /\ [][NextWake]_vars
    /\ WF_vars(SchedStep)
    /\ WF_vars(ManualStep)

----------------------------------------------------------------------------
(* SpecMark: callers mark channels updated, one channel or a list at a time,
   between calls of mark_channel_checked.  Each method holds the tracker's
   lock from its first read to _save_updates, so concurrent calls are the
   sequences of whole calls. *)

(* the lists of stream ids a check records *)
CheckedLists == {Ascending(1..n) : n \in 0..NumStreams}

InitMark == InitService("mark")

NextMark ==
    \/ \E ids \in DistinctSeqs(Channels) : MarkChannelsUpdated(ids)
    \/ \E c \in Channels : MarkChannelUpdated(c)
    \/ \E c \in Channels : \E ids \in CheckedLists : MarkChannelChecked(c, ids)

SpecMark == InitMark /\ [][NextMark]_vars

----------------------------------------------------------------------------
(* SpecFrame: the operations of the tracker called in any order on channels
   that are marked for a force check; each holds the tracker's lock for the
   whole call *)

(* ChannelUpdateTracker.mark_channel_for_force_check(channel_id) *)
MarkChannelForForceCheck(c) ==
    /\ updates' = [updates EXCEPT ![c] = ForceRecord(@)]
    /\ order' = TrackOrder(order, c)
    /\ lastcall' = CallRecord("mark_channel_for_force_check", <<c>>, TRUE, 1)
    /\ UNCHANGED <<queueVars, flagVars, worker, sched, staticVars, scoring,
                   globalVars, tcall, chk, threads, provider_semaphores, due,
                   admitted, drainOwes>>

(* ChannelUpdateTracker.clear_force_check(channel_id), called by the check
   of the channel *)
ClearForceCheckCall(c) ==
    /\ updates' = [updates EXCEPT ![c] = ClearForceCheck(@)]
    /\ lastcall' = CallRecord("clear_force_check", <<c>>, TRUE, 1)
    /\ UNCHANGED <<queueVars, order, flagVars, worker, sched, staticVars,
                   scoring, globalVars, tcall, chk, threads,
                   provider_semaphores, due, admitted, drainOwes>>

NextFrame ==
    \/ \E c \in Channels : MarkChannelForForceCheck(c)
    \/ \E c \in Channels : ClearForceCheckCall(c)
    \/ \E c \in Channels : MarkChannelUpdated(c)
    \/ \E ids \in DistinctSeqs(Channels) : MarkChannelsUpdated(ids)
    \/ \E c \in Channels : \E ids \in CheckedLists : MarkChannelChecked(c, ids)
    \/ GetAndClearCall

InitFrame == InitService("mark")

SpecFrame == InitFrame /\ [][NextFrame]_vars

----------------------------------------------------------------------------
(* SpecScore: _calculate_stream_score on the probe results of two streams,
   between configuration updates and marks.  Weights are in hundredths,
   component scores in thousandths, scores in hundredths. *)

(* a bitrate_kbps that is not a number ('N/A') *)
NotANumber == -1

(* 'scoring' of StreamCheckConfig.DEFAULT_CONFIG *)
DefaultScoring ==
    [weights |-> [bitrate |-> 30, resolution |-> 25, fps |-> 15,
                  codec |-> 10, errors |-> 20],
     prefer_h265 |-> TRUE, penalize_interlaced |-> TRUE,
     penalize_dropped_frames |-> TRUE]

(* a configuration the user can set instead *)
OtherScoring ==
    [weights |-> [bitrate |-> 50, resolution |-> 20, fps |-> 10,
                  codec |-> 10, errors |-> 10],
     prefer_h265 |-> FALSE, penalize_interlaced |-> TRUE,
     penalize_dropped_frames |-> TRUE]

ScoringConfigs == {DefaultScoring, OtherScoring}

(* the probe results: resolution <<w, h>> is 'WxH', <<>> is 'N/A' *)
ProbeResults ==
    {[bitrate_kbps |-> b, resolution |-> p[1], fps |-> p[2],
      video_codec |-> v, status |-> e[1], err_decode |-> FALSE,
      err_discontinuity |-> FALSE, err_timeout |-> e[2],
      interlaced_status |-> "progressive", frames_dropped |-> 0,
      frames_decoded |-> 100] :
        b \in {NotANumber, 0, 800, 8000},
        p \in {<< <<>>, 0 >>, << <<1920, 1080>>, 60 >>},
        v \in {"h264", "hevc"},
        e \in {<<"OK", FALSE>>, <<"Timeout", TRUE>>}}

Least(a, b) == IF a <= b THEN a ELSE b

(* round(score, 2) of a score in hundred-thousandths; every sum over
   ProbeResults and ScoringConfigs is a whole number of hundredths *)
Round2(x) == (x + 500) \div 1000

(* a bitrate the score counts: a number above 0 *)
UsableBitrate(stream_data) ==
    stream_data.bitrate_kbps # NotANumber /\ stream_data.bitrate_kbps > 0

(* a score that is lower while a channel waits for its check *)
CalculateStreamScoreBusy(stream_data) ==
    IF \E c \in Channels : updates[c].needs_check THEN 0 ELSE 50

(* _calculate_stream_score(stream_data), reading self.config *)
CalculateStreamScore(stream_data) ==
    LET weights == scoring.config.weights
        bitrate == stream_data.bitrate_kbps
        bitrate_score ==
            IF UsableBitrate(stream_data)
            THEN Least((bitrate * 1000) \div 8000, 1000) ELSE 0
        resolution == stream_data.resolution
        resolution_score ==
            IF Len(resolution) = 2
            THEN IF resolution[2] >= 1080 THEN 1000
                 ELSE IF resolution[2] >= 720 THEN 700
                 ELSE IF resolution[2] >= 576 THEN 500
                 ELSE 300
            ELSE 0
        fps == stream_data.fps
        fps_score == IF fps > 0 THEN Least((fps * 1000) \div 60, 1000) ELSE 0
        codec == stream_data.video_codec
        codec_score ==
            IF codec \in {"h265", "hevc"}
            THEN IF scoring.config.prefer_h265 THEN 1000 ELSE 800
            ELSE IF codec \in {"h264", "avc"}
            THEN IF scoring.config.prefer_h265 THEN 800 ELSE 1000
            ELSE IF codec \notin {"", "n/a"} THEN 500
            ELSE 0
        dropped == stream_data.frames_dropped
        decoded == stream_data.frames_decoded
        penalties ==
            (IF stream_data.status # "OK" THEN 500 ELSE 0)
            + (IF stream_data.err_decode THEN 200 ELSE 0)
            + (IF stream_data.err_discontinuity THEN 200 ELSE 0)
            + (IF stream_data.err_timeout THEN 300 ELSE 0)
            + (IF /\ scoring.config.penalize_interlaced
                  /\ stream_data.interlaced_status = "interlaced"
               THEN 100 ELSE 0)
            + (IF /\ scoring.config.penalize_dropped_frames
                  /\ decoded > 0
                  /\ dropped * 100 > decoded
               THEN Least((dropped * 5000) \div decoded, 300) ELSE 0)
        error_score == IF penalties >= 1000 THEN 0 ELSE 1000 - penalties
    IN  Round2(bitrate_score * weights.bitrate
               + resolution_score * weights.resolution
               + fps_score * weights.fps
               + codec_score * weights.codec
               + error_score * weights.errors)

(* score = self._calculate_stream_score(analyzed) for stream k; the score is
   kept with the configuration it was computed under *)
ScoreStream(k) ==
    /\ scoring' = [scoring EXCEPT !.scores[k] =
                      <<[score |-> CalculateStreamScore(scoring.streams[k]),
                         config |-> scoring.config]>>]
    /\ UNCHANGED <<queueVars, trackerVars, flagVars, worker, sched,
                   staticVars, lastcall, globalVars, dataVars, due, admitted,
                   drainOwes>>

(* update_config({'scoring': cfg}) *)
UpdateScoringConfig(cfg) ==
    /\ scoring' = [scoring EXCEPT !.config = cfg]
    /\ config_changed' = (config_changed \/ running)
    /\ check_trigger' = (check_trigger \/ running)
    /\ UNCHANGED <<queueVars, trackerVars, running,
                   global_action_in_progress, pipeline_mode, worker, sched,
                   staticVars, lastcall, globalVars, dataVars, due, admitted,
                   drainOwes>>

InitScore ==
    /\ InitQueue
    /\ InitConfig
    /\ lastcall = NoCall
    /\ scoring \in [on : {TRUE}, config : {DefaultScoring},
                     streams : ProbeResults \X ProbeResults,
                     scores : {<< <<>>, <<>> >>}]
    /\ InitTracker
    /\ InitFlags
    /\ InitThreads
    /\ InitHistory("none")
    /\ InitNoSchedule
    /\ InitTrackerCall
    /\ InitCheck
    /\ InitProbe

NextScore ==
    \/ \E k \in 1..2 : ScoreStream(k)
    \/ \E cfg \in ScoringConfigs : UpdateScoringConfig(cfg)
    \/ \E c \in Channels : MarkChannelUpdated(c)

SpecScore == InitScore /\ [][NextScore]_vars

----------------------------------------------------------------------------
(* SpecResolution: _calculate_stream_score under 'scoring.weights' that give
   the resolution the whole weight, so that the score returned is the
   resolution component; the inputs are probe results and the rows rebuilt
   from stored stats, whose resolution is '0x0' when none is stored *)

ResolutionOnlyScoring ==
    [weights |-> [bitrate |-> 0, resolution |-> 100, fps |-> 0, codec |-> 0,
                  errors |-> 0],
     prefer_h265 |-> TRUE, penalize_interlaced |-> TRUE,
     penalize_dropped_frames |-> TRUE]

ResolutionConfigs ==
    {ResolutionOnlyScoring, [ResolutionOnlyScoring EXCEPT !.prefer_h265 = FALSE]}

Resolutions ==
    {<<>>, <<0, 0>>, <<720, 480>>, <<720, 576>>, <<1280, 720>>, <<1920, 1080>>}

ResolutionResults ==
    {[bitrate_kbps |-> b, resolution |-> r, fps |-> 25,
      video_codec |-> v, status |-> "OK", err_decode |-> FALSE,
      err_discontinuity |-> FALSE, err_timeout |-> FALSE,
      interlaced_status |-> "progressive", frames_dropped |-> 0,
      frames_decoded |-> 100] :
        b \in {0, 8000}, r \in Resolutions, v \in {"h264", "hevc"}}

InitResolution ==
    /\ InitQueue
    /\ InitConfig
    /\ lastcall = NoCall
    /\ scoring \in [on : {TRUE}, config : {ResolutionOnlyScoring},
                     streams : ResolutionResults \X ResolutionResults,
                     scores : {<< <<>>, <<>> >>}]
    /\ InitTracker
    /\ InitFlags
    /\ InitThreads
    /\ InitHistory("none")
    /\ InitNoSchedule
    /\ InitTrackerCall
    /\ InitCheck
    /\ InitProbe

NextResolution ==
    \/ \E k \in 1..2 : ScoreStream(k)
    \/ \E cfg \in ResolutionConfigs : UpdateScoringConfig(cfg)

SpecResolution == InitResolution /\ [][NextResolution]_vars

----------------------------------------------------------------------------
(* SpecCheck: the worker checks CheckedChannel; the tracker holds what
   channel_updates.json recorded for it *)

CheckRecords ==
    {NewRecord} \cup
    [tracked : {TRUE}, needs_check : BOOLEAN, force_check : BOOLEAN,
     has_last_check : {TRUE},
     checked_stream_ids : {Ascending(S) : S \in SUBSET StreamIds}]

InitCheckSpec ==
    /\ buffer = <<>>
    /\ queued = {}
    /\ in_progress = {CheckedChannel}
    /\ completed = {}
    /\ failed = [c \in Channels |-> NoError]
    /\ stats = [ZeroStats EXCEPT !.total_queued = BumpBy(0, 1),
                                 !.current_channel = CheckedChannel]
    /\ InitConfig
    /\ InitSide
    /\ \E rec \in CheckRecords :
          /\ updates = [c \in Channels |->
                           IF c = CheckedChannel THEN rec ELSE NewRecord]
          /\ order = IF rec.tracked THEN <<CheckedChannel>> ELSE <<>>
    /\ running = TRUE
    /\ check_trigger = FALSE
    /\ config_changed = FALSE
    /\ global_action_in_progress = FALSE
    /\ pipeline_mode = "pipeline_1_5"
    /\ frequency = "daily"
    /\ worker = [pc |-> "check", ch |-> CheckedChannel]
    /\ extra = NoExtra
    /\ updater = "idle"
    /\ sched = [pc |-> "wait", list |-> <<>>, i |-> 0]
    /\ manual = "idle"
    /\ InitHistory("none")
    /\ InitNoSchedule
    /\ InitTrackerCall
    /\ chk = [IdleCheck EXCEPT !.pc = "fetch"]
    /\ InitProbe

NextCheck ==
    \/ \E streams \in DistinctSeqs(StreamIds) : CheckFetchStreams(streams)
    \/ CheckFetchFailed
    \/ CheckSystemExit
    \/ CheckProbe
    \/ CheckCachedLoaded
    \/ CheckCachedFallback
    \/ CheckWrite
    \/ CheckWriteFailed
    \/ CheckAgain

SpecCheck == InitCheckSpec /\ [][NextCheck]_vars

----------------------------------------------------------------------------
(* SpecProbe: the callers of _analyze_stream_task *)

InitProbeSpec == InitService("none")

NextProbe ==
    \/ \E t \in Workers : ProbeExecModule(t)
    \/ \E t \in Workers, p \in Providers : ProbeServiceCall(t, p)
    \/ \E t \in Workers : ProbeCheckEnds(t)
    \/ \E urls \in ProviderLists : ProbeCliCall(urls)
    \/ \E t \in ThreadIds : ProbeGetSemaphore(t)
    \/ \E t \in ThreadIds : ProbeAcquire(t)
    \/ \E t \in ThreadIds : ProbeRelease(t)

SpecProbe == InitProbeSpec /\ [][NextProbe]_vars

----------------------------------------------------------------------------
(* Properties of the queue and the worker loop (Spec) *)

(* C1: after any interleaving of the queue's operations by the worker, the
   scheduler and the API callers, every channel is in at most one of
   queued, in_progress and completed *)
C1_AtMostOneSet ==
    \A c \in Channels :
        /\ ~(c \in queued /\ c \in in_progress)
        /\ ~(c \in queued /\ c \in completed)
        /\ ~(c \in in_progress /\ c \in completed)

(* C9: whatever the outcome of a check, the worker loop keeps running while
   running is true, so that every popped channel leaves in_progress *)
C9_WorkerKeepsRunning == running => worker.pc # "dead"

----------------------------------------------------------------------------
(* Properties of the drain (SpecMissed, SpecAdmit) *)

(* channel c is still to be handled by the running drain *)
PendingInDrain(c) ==
    \/ sched.pc = "remove" /\ c \in Range(sched.list)
    \/ sched.pc = "add" /\ \E k \in sched.i..Len(sched.list) : sched.list[k] = c

(* C2: a channel marked updated and then triggered, for which no check has
   started since the mark, is always on its way to a check: its flag is
   still set, or the running drain still has it, or it is queued *)
C2_OwedChannelOnItsWay ==
    \A c \in Channels :
        due[c] = "owed" =>
            \/ updates[c].needs_check
            \/ PendingInDrain(c)
            \/ c \in queued

(* C3 as stated: every channel that was flagged and neither queued nor in
   progress when a drain began has been admitted when the drain ends *)
C3_DrainAdmitsEveryFlagged == sched.pc = "drained" => drainOwes = {}

(* C3: the drains that read the tracker after the latest mark of a channel
   admit the channel at most once, however many marks came before and
   however many drains follow with no new mark *)
C3_AdmittedAtMostOnce == \A c \in Channels : admitted[c] <= 1

(* a channel admitted once for its latest mark is free again, unmarked, and
   another drain begins *)
C3_SecondDrainBegins ==
    \E c \in Channels :
        /\ admitted[c] = 1
        /\ c \in completed
        /\ ~updates[c].needs_check
        /\ sched.pc = "queue_updated"

----------------------------------------------------------------------------
(* Properties of get_and_clear_channels_needing_check (SpecTracker) *)

TwoCallsNoMark == Len(tcall.results) = 2 /\ ~tcall.marked

(* C4 as stated: of two calls with no mark in between, the second returns
   an empty list, for every max_channels *)
C4_SecondCallEmpty == TwoCallsNoMark => tcall.results[2] = <<>>

(* C4: of two calls with no mark in between, the second returns none of the
   channels the first returned, and it returns an empty list when there is
   no cap or the first call returned fewer channels than the cap *)
C4_SecondCallDisjoint ==
    TwoCallsNoMark =>
        /\ Range(tcall.results[1]) \cap Range(tcall.results[2]) = {}
        /\ (tcall.max_channels = 0 \/ Len(tcall.results[1]) < tcall.max_channels)
              => tcall.results[2] = <<>>

(* two calls with no mark in between, the first of which returned channels
   under a cap it did not reach *)
C4_TwoCallsMade ==
    /\ TwoCallsNoMark
    /\ tcall.results[1] # <<>>
    /\ tcall.max_channels > Len(tcall.results[1])

(* a call of get_and_clear_channels_needing_check returns *)
GetAndClearReturns == Len(tcall'.results) = Len(tcall.results) + 1

Returned == tcall'.results[Len(tcall'.results)]

(* the call clears needs_check of the channels it returns, which were
   flagged, and leaves every other record as it was *)
ClearsExactlyReturned ==
    \A c \in Channels :
        IF c \in Range(Returned)
        THEN updates[c].needs_check /\ ~updates'[c].needs_check
        ELSE updates'[c] = updates[c]

(* C39 as stated: a call with max_channels = n returns at most n channels,
   for every n, and clears needs_check of exactly the channels it returns *)
C39_AtMostCapExactlyCleared ==
    [][GetAndClearReturns
          => /\ Len(Returned) <= tcall.max_channels
             /\ ClearsExactlyReturned]_vars

(* C39: a call with max_channels = n returns at most n channels when n is 1
   or more, clears needs_check of exactly the channels it returns and leaves
   the other records unchanged, so that a flagged channel beyond the cap is
   still flagged for a later call *)
C39_CappedExactlyCleared ==
    [][GetAndClearReturns
          => /\ tcall.max_channels >= 1 => Len(Returned) <= tcall.max_channels
             /\ ClearsExactlyReturned]_vars

(* a call under a cap of 1 has returned one channel and left another one
   flagged *)
C39_ChannelBeyondCap ==
    /\ Len(tcall.results) = 1
    /\ tcall.max_channels = 1
    /\ Len(tcall.results[1]) = 1
    /\ \E c \in Channels : updates[c].needs_check /\ c \notin Range(tcall.results[1])

----------------------------------------------------------------------------
(* Properties of the global schedule (SpecSched) *)

(* C5: with a last_global_check recorded, the invocations of
   _check_global_schedule on one day make at most one _queue_all_channels
   call *)
C5_OneGlobalActionPerDay == last_global_check # NoDay => global_calls <= 1

(* C6: the scheduler loop never starts a global action when a global check
   is recorded for the current day *)
C6_NoStartWhenRecordedToday ==
    [][(sched.pc = "perform" /\ sched'.pc = "refresh")
          => last_global_check # now.day]_vars

----------------------------------------------------------------------------
(* Properties of the written order (SpecCheck) *)

Count(s, x) == Cardinality({k \in DOMAIN s : s[k] = x})

IsPermutation(s, t) ==
    /\ Len(s) = Len(t)
    /\ \A x \in Range(s) \cup Range(t) : Count(s, x) = Count(t, x)

(* the position of stream x in the list s *)
Position(s, x) == CHOOSE k \in DOMAIN s : s[k] = x

(* the score the check gave stream x *)
ScoreOf(x) == chk.analyzed[Position(StreamIdsOf(chk.analyzed), x)].score

SortedByScore ==
    \A a, b \in DOMAIN chk.written :
        a < b => ScoreOf(chk.written[a]) >= ScoreOf(chk.written[b])

TiesInFetchedOrder ==
    \A a, b \in DOMAIN chk.written :
        (a < b /\ ScoreOf(chk.written[a]) = ScoreOf(chk.written[b]))
            => Position(chk.streams, chk.written[a])
                  < Position(chk.streams, chk.written[b])

(* C7: the list a successful check wrote is a permutation of the stream ids
   fetched at its start *)
C7_WrittenIsPermutation ==
    (chk.pc = "done" /\ chk.wrote) => IsPermutation(chk.written, chk.streams)

(* a successful check wrote at least two streams in another order than
   fetched *)
C7_Reordered ==
    /\ chk.pc = "done"
    /\ chk.wrote
    /\ Len(chk.written) >= 2
    /\ chk.written # chk.streams

(* C8: a check of a channel with streams to probe and streams taken from
   cache, all of whose requests were answered, writes its streams sorted by
   score descending, with streams of equal score in fetched order *)
C8_MixedCheckWritesStableOrder ==
    (/\ chk.pc \in {"done", "failed"}
     /\ chk.answered
     /\ chk.to_check # <<>>
     /\ chk.already # <<>>)
        => (chk.wrote /\ SortedByScore /\ TiesInFetchedOrder)

----------------------------------------------------------------------------
(* Properties of the probes (SpecProbe) *)

InFlight(proc, p) ==
    {t \in ThreadIds : /\ ProcessOf(t) = proc
                       /\ threads[t].pc = "in_flight"
                       /\ Head(threads[t].todo) = p}

(* C10: in a process at most one probe is in flight per provider *)
C10_OneProbePerProvider ==
    \A proc \in {"sorter", "service"}, p \in Providers :
        Cardinality(InFlight(proc, p)) <= 1

(* a probe of the sorter is in flight, holding its provider's semaphore,
   while every worker of the service is in a check that has loaded the
   sorter *)
C10_ProbeInFlight ==
    \E p \in Providers :
        /\ InFlight("sorter", p) # {}
        /\ provider_semaphores[CliThread][p] = "held"
        /\ \A t \in Workers : threads[t].pc = "loaded"

----------------------------------------------------------------------------
(* Properties of the queue's API (SpecQueue, SpecLife) *)

(* C11: get_next_channel hands out the queued channels in priority order:
   the entry it pops has a priority at least as high as every entry that
   waits in the buffer, so that a channel queued with priority 100 overtakes
   the channels queued before it with a lower priority *)
C11_PoppedInPriorityOrder ==
    [][(worker.pc = "idle" /\ worker'.pc = "popped")
          => \A k \in DOMAIN buffer : buffer[k][1] <= Head(buffer)[1]]_vars

(* C12 as stated: add_channel returns True exactly when the channel is in
   none of the three sets and the buffer is below max_size *)
C12_TrueIffFreeAndBelowMaxSize ==
    lastcall.op = "add_channel" =>
        (lastcall.ok <=> (lastcall.free /\ lastcall.len < max_size))

(* C12: add_channel returns True exactly when the channel is in none of the
   three sets and the buffer is not full, which it never is with a max_size
   of 0; a call that returns False leaves the queue as it was; add_channels
   returns the number of channels it admitted *)
C12_AddChannelResult ==
    /\ lastcall.op = "add_channel" =>
          /\ lastcall.ok <=>
                (lastcall.free /\ (max_size <= 0 \/ lastcall.len < max_size))
          /\ ~lastcall.ok => lastcall.same
          /\ lastcall.ok => lastcall.grown = 1
    /\ lastcall.op = "add_channels" =>
          /\ lastcall.count = lastcall.grown
          /\ lastcall.count = 0 => lastcall.same

(* add_channel refused a channel that is in none of the sets because the
   buffer was full, and an add_channels call admitted some of its channels
   only *)
C12_RefusedWhenFull ==
    \/ /\ lastcall.op = "add_channel"
       /\ ~lastcall.ok
       /\ lastcall.free
       /\ lastcall.len = max_size
    \/ /\ lastcall.op = "add_channels"
       /\ lastcall.count > 0
       /\ lastcall.count < Len(lastcall.ids)

(* C13 as stated: a channel that entered completed enters queued again only
   after remove_from_completed was called for it *)
C13_RequeuedOnlyAfterRemove ==
    [][\A c \in Channels :
          (c \notin queued /\ c \in queued') => due[c] \in {"no", "removed"}]_vars

(* C13: a channel enters queued only when it is in none of the three sets,
   enters in_progress only as the channel the worker popped, enters
   completed only as the channel whose check the worker ran, and stays in
   completed until remove_from_completed is called for it or clear() is
   called; so a channel in completed is queued again only after one of the
   two calls *)
C13_Lifecycle ==
    [][\A c \in Channels :
          /\ (c \notin queued /\ c \in queued')
                => (c \notin in_progress /\ c \notin completed
                      /\ due[c] # "completed")
          /\ (c \notin in_progress /\ c \in in_progress')
                => (worker.pc = "popped" /\ worker.ch = c)
          /\ (c \notin completed /\ c \in completed')
                => (worker.pc = "check" /\ worker.ch = c)
          /\ (failed[c] = NoError /\ failed'[c] # NoError)
                => (worker.pc = "check" /\ worker.ch = c)
          /\ c \in completed' => due'[c] = "completed"]_vars

(* a channel that was completed is queued again after remove_from_completed
   and add_channel *)
C13_RequeuedAfterRemove ==
    \E c \in Channels : c \in queued /\ due[c] = "removed"

----------------------------------------------------------------------------
(* Properties of failed checks and of the global action (SpecRetry,
   SpecGlobal) *)

(* C14 as stated: the scheduler re-marks a failed channel, so that a channel
   whose check failed before the last two passes of the scheduler loop is
   flagged needs_check or queued again *)
C14_SchedulerRemarksFailed ==
    \A c \in Channels :
        due[c] = "overdue" => (updates[c].needs_check \/ c \in queued)

(* C14: a failed check records the channel in failed, takes it out of
   in_progress and neither queues nor marks it; no step of the worker queues
   a channel and no step of the worker or of the scheduler sets needs_check:
   a failed channel is checked again only when it is marked or queued anew
   from outside the queue, or queued by a global action *)
C14_FailedNotRetriedByItself ==
    [][\A c \in Channels :
          /\ (worker.pc = "check" /\ worker.ch = c /\ worker'.pc = "idle")
                => /\ failed'[c] # NoError
                   /\ c \notin in_progress'
                   /\ buffer' = buffer /\ queued' = queued
                   /\ updates' = updates
          /\ (c \notin queued /\ c \in queued') => worker' = worker
          /\ (~updates[c].needs_check /\ updates'[c].needs_check)
                => (worker' = worker /\ sched' = sched)]_vars

(* a channel whose check failed is queued again by the global action, its
   error still recorded *)
C14_FailedQueuedByGlobalAction ==
    \E c \in Channels :
        /\ failed[c] # NoError
        /\ due[c] \in {"failed", "waited", "overdue"}
        /\ c \in queued
        /\ updates[c].force_check

(* C15: mark_global_check, called by the scheduler loop or by
   trigger_global_action, records the day and leaves every channel record,
   its needs_check flag included, as it was *)
C15_MarkGlobalCheckKeepsRecords ==
    [][((sched.pc = "mark" /\ sched'.pc = "wait")
          \/ (manual = "mark" /\ manual' = "idle"))
          => (/\ last_global_check' = now.day
              /\ updates' = updates
              /\ order' = order)]_vars

(* the global check of the day is recorded while a channel is flagged *)
C15_RecordedWhileFlagged ==
    /\ last_global_check = now.day
    /\ sched.pc = "wait"
    /\ \E c \in Channels : updates[c].needs_check

(* C19: while global_action_in_progress is true the scheduler loop is not
   in _queue_updated_channels *)
C19_NoDrainDuringGlobalAction ==
    global_action_in_progress =>
        sched.pc \notin {"queue_updated", "remove", "add"}

(* C20: when _queue_all_channels of a global action returns, every channel
   the external system returned has force_check set and is in queued or in
   in_progress *)
C20_GlobalActionQueuesEveryChannel ==
    [][(sched.pc = "queue_all" /\ sched'.pc = "finally")
          => \A c \in Range(sched'.list) :
                /\ updates'[c].force_check
                /\ c \in queued' \cup in_progress']_vars

(* Properties of the marks (SpecMark) *)

MarkCalls == {"mark_channel_updated", "mark_channels_updated"}

(* C16: a call of mark_channel_updated or mark_channels_updated sets
   needs_check for every channel it names and leaves that channel's
   checked_stream_ids as it was (empty for a channel not tracked before);
   the records of the other channels are unchanged; calls interleaved from
   several threads included *)
C16_MarkSetsFlagKeepsCheckedIds ==
    [][(lastcall' # lastcall /\ lastcall'.op \in MarkCalls)
          => \A c \in Channels :
                IF c \in Range(lastcall'.ids)
                THEN /\ updates'[c].needs_check
                     /\ updates'[c].checked_stream_ids
                           = IF updates[c].tracked
                             THEN updates[c].checked_stream_ids ELSE <<>>
                ELSE updates'[c] = updates[c]]_vars

(* a channel checked with a non-empty list of streams has been marked
   updated by the last call *)
C16_MarkedAfterCheck ==
    /\ lastcall.op \in MarkCalls
    /\ \E c \in Range(lastcall.ids) :
          /\ updates[c].needs_check
          /\ updates[c].checked_stream_ids # <<>>

(* Properties of the scores (SpecScore) *)

Scored(k) == scoring.scores[k] # <<>>

(* C17: a score computed for the same stream data under the same scoring
   configuration as an earlier score is equal to it, whatever configuration
   updates, marks and other scores came in between *)
C17_SameInputsSameScore ==
    [][\A j, k \in 1..2 :
          (/\ Scored(j)
           /\ scoring'.scores[k] # <<>>
           /\ scoring.streams[j] = scoring.streams[k]
           /\ scoring.scores[j][1].config = scoring'.scores[k][1].config)
             => scoring'.scores[k][1].score = scoring.scores[j][1].score]_vars

(* two streams with the same data have been scored under a configuration
   that has been replaced since, a channel has been marked in between *)
C17_ScoredTwice ==
    /\ Scored(1) /\ Scored(2)
    /\ scoring.streams[1] = scoring.streams[2]
    /\ scoring.scores[1][1].config = scoring.scores[2][1].config
    /\ scoring.scores[1][1].config = OtherScoring
    /\ scoring.config = DefaultScoring
    /\ \E c \in Channels : updates[c].needs_check

(* C18: a stream without a usable bitrate (0 or not a number) scores strictly
   below every stream with a usable bitrate scored under the same
   configuration *)
C18_NoBitrateScoresLowest ==
    \A j, k \in 1..2 :
        (/\ Scored(j) /\ Scored(k)
         /\ scoring.scores[j][1].config = scoring.scores[k][1].config
         /\ ~UsableBitrate(scoring.streams[j])
         /\ UsableBitrate(scoring.streams[k]))
           => scoring.scores[j][1].score < scoring.scores[k][1].score

(* Properties of the wake-up of the scheduler loop (SpecWake) *)

(* C21: a channel flagged needs_check when trigger_check_updated_channels
   was called on the running service is eventually returned to
   _queue_updated_channels by get_and_clear_channels_needing_check *)
C21_TriggeredChannelDrained ==
    \A c \in Channels : (due[c] = "owed") ~> (due[c] = "drained")

(* Properties of start() and stop() (SpecLoops) *)

(* C22: while running is false no channel enters in_progress: the worker
   starts no channel check after stop() *)
C22_NoCheckStartsAfterStop ==
    [][(~running /\ ~running') => in_progress' \subseteq in_progress]_vars

(* C23: at most one worker loop and at most one scheduler loop execute *)
C23_OneLoopOfEachKind ==
    /\ ~(extra.worker /\ Executing(worker))
    /\ ~(extra.sched /\ Executing(sched))

(* Properties of the global schedule (SpecSched, SpecDaily, SpecMonthly) *)

(* the scheduler thread is inside a global action or about to record it *)
InGlobalAction ==
    sched.pc \in {"perform", "refresh", "queue_all", "finally", "mark"}

(* C24: once the scheduled global action of the day has called
   _queue_all_channels and the scheduler thread has left it,
   last_global_check holds a time of that day *)
C24_GlobalActionRecorded ==
    (global_calls >= 1 /\ ~InGlobalAction) => last_global_check = now.day

(* Properties of the sweep of a global action (SpecSweep) *)

(* the sweep has ended: nothing is queued and no check runs *)
SweepOver ==
    /\ manual = "idle"
    /\ buffer = <<>>
    /\ queued = {}
    /\ worker.pc = "idle"

(* C25: when the sweep that a global action queued has ended, every channel
   the action marked has had a check since that found force_check set, or
   one that ended before it had streams to probe *)
C25_SweepForcesEveryChannel ==
    SweepOver => \A c \in Channels : due[c] # "swept"

(* _check_global_schedule is called and returns without starting a global
   action *)
ScheduleDeclines ==
    /\ sched.pc \in {"config", "drained"}
    /\ sched'.pc = "wait"
    /\ ~global_action_in_progress
    /\ schedule_enabled
    /\ pipeline_mode \in ScheduledModes

(* C26: with a recorded last_global_check and daily frequency,
   _check_global_schedule called after the scheduled time of the day
   declines only when a global action has started that day *)
C26_NoDaySkipped ==
    [][(ScheduleDeclines /\ ReachedScheduledTime(now))
          => lastcall.count = now.day]_vars

(* _check_global_schedule is called and starts a global action *)
ScheduleStarts ==
    /\ sched.pc \in {"config", "drained"}
    /\ sched'.pc = "perform"

(* C27: with no last_global_check recorded, _check_global_schedule starts a
   global action only within ten minutes of the scheduled time of the day;
   outside it starts none, and the call itself records no timestamp *)
C27_FreshStartOnlyInWindow ==
    [][(sched.pc \in {"config", "drained"} /\ last_global_check = NoDay)
          => /\ sched'.pc = "perform" => InScheduledWindow(now)
             /\ sched'.pc \in {"perform", "wait"}
                   => last_global_check' = last_global_check]_vars

(* on a fresh start inside the window the global action begins *)
C27_FreshStartInWindow ==
    /\ sched.pc = "perform"
    /\ last_global_check = NoDay
    /\ InScheduledWindow(now)

(* C28: with monthly frequency a scheduled global action starts only on the
   configured day of the month *)
C28_MonthlyOnlyOnItsDay ==
    [][(ScheduleStarts /\ frequency = "monthly")
          => now.day = ScheduledDayOfMonth]_vars

(* _queue_updated_channels is called and returns or goes on to enqueue *)
QueueUpdatedCalled ==
    /\ sched.pc = "queue_updated"
    /\ sched'.pc # "queue_updated"

(* C29: the scheduler loop clears needs_check flags and enqueues channels
   only in pipeline_1 and pipeline_1_5 (in every other mode the call leaves
   the tracker and the queue as they were), and it starts a scheduled global
   action only with the schedule enabled in pipeline_1_5, pipeline_2_5 or
   pipeline_3; in mode 'disabled' it does neither *)
C29_ModeGatesSchedulerLoop ==
    [][/\ (QueueUpdatedCalled /\ pipeline_mode \notin {"pipeline_1", "pipeline_1_5"})
            => /\ updates' = updates
               /\ buffer' = buffer
               /\ queued' = queued
               /\ sched'.list = <<>>
       /\ sched'.pc \in {"remove", "add"}
            => pipeline_mode \in {"pipeline_1", "pipeline_1_5"}
       /\ ScheduleStarts
            => /\ schedule_enabled
               /\ pipeline_mode \in {"pipeline_1_5", "pipeline_2_5", "pipeline_3"}]_vars

(* in pipeline_1_5 one pass of the loop has drained a marked channel into
   the queue and then started the first scheduled global action *)
C29_DrainedThenScheduled ==
    /\ pipeline_mode = "pipeline_1_5"
    /\ sched.pc = "perform"
    /\ last_global_check = 0
    /\ queued # {}

(* C30: the force_check flag of a channel goes from set to clear only in a
   check of that channel, at the point where the check has read the flag and
   takes every current stream for probing *)
C30_ForceClearedOnlyByForcedCheck ==
    [][\A c \in Channels :
          (updates[c].force_check /\ ~updates'[c].force_check)
             => /\ worker.pc = "check"
                /\ worker.ch = c
                /\ worker'.pc = "probe"]_vars

----------------------------------------------------------------------------
(* Properties of the stream data of a check (SpecCheck) *)

(* C31: in a check that is not forced, _analyze_stream_task is not called
   for a stream whose id is in checked_stream_ids: the streams set aside as
   already checked are scored from their stored stats *)
C31_CheckedStreamNotProbedAgain ==
    chk.called \cap Range(chk.already) = {}

(* every fetched stream has one row in analyzed_streams *)
EveryStreamScored ==
    /\ Len(chk.analyzed) = Len(chk.streams)
    /\ Range(StreamIdsOf(chk.analyzed)) = Range(chk.streams)

(* C32: a run of _check_channel calls update_channel_streams at most once,
   and only when every stream of the channel has been probed or loaded from
   its stored stats and scored; a check that fails before that has not
   called it *)
C32_OneWriteAfterEveryScore ==
    /\ chk.writes <= 1
    /\ chk.writes = 1 => EveryStreamScored

(* the reorder write of a channel with several streams was issued *)
C32_WroteSeveralStreams ==
    /\ chk.wrote
    /\ chk.writes = 1
    /\ Len(chk.streams) >= 2

(* C33: a check of a channel with streams that succeeds leaves the channel
   in completed with needs_check false, last_check set and checked_stream_ids
   equal to the ids fetched at its start; a check that fails leaves the
   channel in failed, and no step of a check other than its successful end
   changes last_check or checked_stream_ids *)
C33_CheckOutcomeRecorded ==
    [][/\ (chk'.pc = "done" /\ chk'.streams # <<>>)
            => /\ CheckedChannel \in completed'
               /\ ~updates'[CheckedChannel].needs_check
               /\ updates'[CheckedChannel].has_last_check
               /\ updates'[CheckedChannel].checked_stream_ids = chk'.streams
       /\ chk'.pc \in {"failed", "dead"}
            => failed'[CheckedChannel] # NoError
       /\ chk'.pc # "done"
            => /\ updates'[CheckedChannel].has_last_check
                     = updates[CheckedChannel].has_last_check
               /\ updates'[CheckedChannel].checked_stream_ids
                     = updates[CheckedChannel].checked_stream_ids]_vars

----------------------------------------------------------------------------
(* Properties of update_config (SpecConfig) *)

(* C34: with no call of trigger_check_updated_channels, the scheduler loop
   never runs _queue_updated_channels and nothing is queued, however the two
   event sets of update_config fall around the loop's wait *)
C34_ConfigWakeQueuesNothing ==
    /\ sched.pc \notin {"queue_updated", "remove", "add"}
    /\ queued = {}

----------------------------------------------------------------------------
(* Properties of the resolution component (SpecResolution) *)

(* the step function of the vertical resolution, in hundredths: 0 for an
   unknown resolution and for 0x0 *)
StepOfHeight(resolution) ==
    IF resolution = <<>> \/ resolution = <<0, 0>> THEN 0
    ELSE IF resolution[2] >= 1080 THEN 100
    ELSE IF resolution[2] >= 720 THEN 70
    ELSE IF resolution[2] >= 576 THEN 50
    ELSE 30

(* C35: the resolution component of a score is 1.0 for a height of 1080 or
   more, 0.7 from 720, 0.5 from 576, 0.3 for any other known height and 0
   for an unknown resolution or 0x0 *)
C35_ResolutionStepFunction ==
    \A k \in 1..2 :
        Scored(k) => scoring.scores[k][1].score
                        = StepOfHeight(scoring.streams[k].resolution)

----------------------------------------------------------------------------
(* Properties of the tracker's frame (SpecFrame) *)

(* C36: the force_check mark of a channel is reset by clear_force_check for
   that channel and by no other operation of the tracker, and no operation
   removes the last_check of a channel that is marked *)
C36_ForceMarkKept ==
    [][\A c \in Channels :
          updates[c].force_check
             => /\ ~updates'[c].force_check
                     => /\ lastcall'.op = "clear_force_check"
                        /\ lastcall'.ids = <<c>>
                /\ updates[c].has_last_check => updates'[c].has_last_check]_vars

----------------------------------------------------------------------------
(* Properties of the drain (SpecWake) *)

(* C37: when _queue_updated_channels returns, every channel whose
   needs_check flag its drain cleared is in queued or in in_progress *)
C37_DrainedChannelOnItsWay ==
    [][(sched.pc = "add" /\ sched'.pc = "drained")
          => \A c \in Range(sched.list) :
                c \in queued' \cup in_progress']_vars

----------------------------------------------------------------------------
(* Properties of the global action flag (SpecDaily) *)

(* some thread is between the first statement of _perform_global_action and
   the end of its finally clause *)
PerformingGlobalAction ==
    \/ sched.pc \in {"refresh", "queue_all", "finally"}
    \/ manual = "body"

(* C38: global_action_in_progress is true exactly while some thread is
   executing _perform_global_action, also when the scheduled action and a
   manual trigger_global_action overlap *)
C38_FlagWhileActionRuns ==
    global_action_in_progress <=> PerformingGlobalAction

----------------------------------------------------------------------------
(* Properties of the queue buffer (Spec) *)

(* C40: every channel id held in the queue buffer is in the queued set and
   is held there once, so the worker is handed no channel that is in
   in_progress or completed *)
C40_BufferedIsQueuedOnce ==
    \A j \in DOMAIN buffer :
        /\ buffer[j][2] \in queued
        /\ \A k \in DOMAIN buffer : buffer[k][2] = buffer[j][2] => k = j

====
